---- MODULE Spec2Model ----
(***************************************************************************)
(* Model of the Yamcam5 sound profiler (src/yamcam5): the event state      *)
(* machine of update_sound_window with the event sink of report_event, the *)
(* scoring pipeline of rank_sounds, the frame assembler of                 *)
(* CameraAudioStream.read_stream, the supervisor with the main thread and  *)
(* its signal handler, the threads of one CameraAudioStream, and           *)
(* analyze_callback as run by the read threads of two cameras next to the  *)
(* summary thread.  The sound log (sound_log: true) is modelled by what    *)
(* becomes of each row report_event writes.                                *)
(*                                                                         *)
(* Scores are fixed-point hundredths: 0.7 is 70, 0.05 is 5, 0.95 is 95.    *)
(* Wall-clock timestamps (last_detection_time, the timestamp field of an   *)
(* event) are not modelled.                                                *)
(***************************************************************************)
EXTENDS Integers, Sequences, FiniteSets, TLC

VARIABLES
    camera_settings,   \* yamcam_config: the configured camera names
    sounds_to_track,   \* yamcam_config: the tracked groups, in configuration order
    events_settings,   \* yamcam_config: window_detect, persistence, decay
    sound_log_writer,  \* yamcam_functions.sound_log_writer: "None" or "writer"
    shutdown_event,    \* yamcam_config.shutdown_event
    sound_windows,     \* {camera_name: {sound_class: deque}}
    active_sounds,     \* {camera_name: {sound_class: bool}}
    decay_counters,    \* {camera_name: {sound_class: remaining}}
    event_counts,      \* {camera_name: {sound_class: count}}
    reported,          \* every report_event call so far, in call order
    script,            \* a detection stream fed window by window (SpecStream)
    trace,             \* per fed window, the report_event calls it made (SpecStream)
    general_settings,  \* yamcam_config: noise_threshold, top_k, default_min_score
    scores,            \* the score vector of the current window (scores[0])
    group_scores,      \* the argument of calculate_composite_scores
    composite_scores,  \* the return value of calculate_composite_scores
    results,           \* the return value of rank_sounds
    returned,          \* whether the call on the current window has returned
    decoded,           \* every byte the decoder has written to its stdout
    at_eof,            \* the decoder has exited and closed its stdout
    read_pos,          \* how many bytes of decoded the worker has read
    raw_audio,         \* read_stream's accumulation buffer
    dispatched,        \* the buffer handed to each analyze_callback call, in order
    stream_running,    \* CameraAudioStream.running
    read_thread,       \* "alive" while read_stream has not returned
    supervisor_running,   \* CameraStreamSupervisor.running
    lock,                 \* CameraStreamSupervisor.lock: "free" or the thread holding it
    streams,              \* CameraStreamSupervisor.streams: camera_name -> worker
    workers,              \* every CameraAudioStream object created so far
    supervisor_thread,    \* where monitor_streams stands
    main_thread,          \* the call stack of the main thread, innermost frame last
    signals,              \* how many SIGINT/SIGTERM have been delivered
    stop_calls,           \* the workers stop_all_streams called stop() on, in order
    stop_all_returned,    \* how many stop_all_streams invocations have returned
    stream_lock,          \* CameraAudioStream.lock: "free" or the thread holding it
    process,              \* the decoder subprocess of the worker
    ffmpeg_started_event, \* CameraAudioStream.ffmpeg_started_event
    stderr,               \* how many diagnostic lines of the decoder are not yet read
    read_state,           \* where the read thread stands inside analyze_callback
    error_thread,         \* where read_stderr stands
    timeout_thread,       \* where _timeout_monitor stands
    stopper,              \* where the stop_all_streams call that stops the worker stands
    handled,              \* the diagnostic line read_stderr read last, if any
    stopped_by,           \* the thread whose stop() call stopped the worker
    interpreter,          \* the input and output tensors of yamcam_config.interpreter
    callback,             \* per camera, where its read thread stands in analyze_callback
    state_lock,           \* yamcam_functions.state_lock: "free" or the thread holding it
    summary_thread,       \* where log_summary stands
    summaries             \* the counts each summary so far was written from

configVars == <<camera_settings, sounds_to_track, events_settings,
                sound_log_writer>>

engineVars == <<shutdown_event, sound_windows, active_sounds, decay_counters,
                event_counts, reported>>

streamVars == <<script, trace>>

scoreVars == <<general_settings, scores, group_scores, composite_scores, results,
               returned>>

frameVars == <<decoded, at_eof, read_pos, raw_audio, dispatched, stream_running,
               read_thread>>

supervisorVars == <<supervisor_running, lock, streams, workers, supervisor_thread,
                    main_thread, signals, stop_calls, stop_all_returned>>

workerVars == <<stream_lock, process, ffmpeg_started_event, stderr, read_state,
                error_thread, timeout_thread, stopper, handled, stopped_by>>

callbackVars == <<interpreter, callback, state_lock, summary_thread, summaries>>

vars == <<configVars, engineVars, streamVars, scoreVars, frameVars, supervisorVars,
          workerVars, callbackVars>>

-----------------------------------------------------------------------------
(* Bounds of the model *)

MaxWindow == 2
MaxDecay == 2
MaxEvents == 3
StreamLen == 11
MaxGroupSize == 6
MaxTopK == 2
MaxBytes == 7
MaxWorkers == 3
MaxSignals == 2
MaxLines == 1
MaxFrames == 1
MaxCallbacks == 2
MaxSummaries == 2

\* buffer_size, 31 200 bytes in the program (yamcam_supervisor.py line 37),
\* scaled down
buffer_size == 3

-----------------------------------------------------------------------------
(* Configuration *)

\* Two cameras tracking one group, or one camera tracking two groups
Deployments ==
    {[cameras |-> {"cam1", "cam2"}, track |-> <<"dog">>],
     [cameras |-> {"cam1"}, track |-> <<"dog", "glass">>]}

DefaultWindowDetect == 5
DefaultPersistence == 3
DefaultDecay == 15

DefaultEventsSettings ==
    [window_detect |-> DefaultWindowDetect,
     persistence |-> DefaultPersistence,
     decay |-> DefaultDecay]

\* events: window_detect int >= 1, persistence int >= 1, decay int >= 1
\* (the loader checks none of the three; decay = 0 is kept as the one
\* out-of-range value)
SmallEventsSettings ==
    {s \in [window_detect : 1..MaxWindow, persistence : 1..MaxWindow,
            decay : 0..MaxDecay] : s.persistence <= s.window_detect}

\* The default settings with the default decay and with a short one
StreamSettings ==
    {DefaultEventsSettings, [DefaultEventsSettings EXCEPT !.decay = 3]}

-----------------------------------------------------------------------------
(* Python helpers *)

Range(s) == {s[i] : i \in DOMAIN s}

\* dict.get(key, default)
Get(d, k, default) == IF k \in DOMAIN d THEN d[k] ELSE default

\* d[k] = v
Put(d, k, v) == [x \in DOMAIN d \cup {k} |-> IF x = k THEN v ELSE d[x]]

\* Mutant of DequeAppend: appendleft, the newest sample goes to the head
DequeAppend_left(w, x, n) ==
    IF Len(w) >= n THEN <<x>> \o SubSeq(w, 1, n - 1) ELSE <<x>> \o w

\* Mutant of DequeAppend: the deque is unbounded
DequeAppend_unbounded(w, x, n) == Append(w, x)

\* deque(maxlen=n).append(x)
DequeAppend(w, x, n) ==
    IF n = 0 THEN <<>>
    ELSE IF Len(w) >= n THEN Append(Tail(w), x)
    ELSE Append(w, x)

\* deque.count(True)
CountTrue(w) == Cardinality({i \in DOMAIN w : w[i]})

-----------------------------------------------------------------------------
(* update_sound_window *)

\* mqtt_client = None at import; set_mqtt_client, the only code that assigns
\* it, and start_mqtt, the only code that makes a client, have no caller
mqtt_client == "None"

\* The topic prefix of the configuration, imported by name
mqtt_topic_prefix == "mqtt_topic_prefix"

\* What the publisher is when report_event runs: the client is None, or not
\* connected, or connected with a publish that ends with a return code other
\* than MQTT_ERR_SUCCESS, that raises, or that succeeds
Publishers == {"None", "disconnected", "rc_failure", "exception", "success"}

\* if mqtt_client and mqtt_client.is_connected()
IsConnected(publisher) == publisher \notin {"None", "disconnected"}

\* The mqtt_client.publish calls of one report_event call: the topic is
\* f"{mqtt_topic_prefix}/{event_type}", the payload the JSON of the event
Publishes(publisher, camera_name, sound_class, event_type) ==
    IF IsConnected(publisher)
    THEN <<[topic |-> <<mqtt_topic_prefix, event_type>>,
            payload |-> [camera_name |-> camera_name,
                         sound_class |-> sound_class,
                         event_type |-> event_type],
            delivered |-> (publisher = "success")]>>
    ELSE <<>>

\* What the disk does with a write of the sound log: it takes it, or the
\* write fails (disk full, permission denied)
Disks == {"ok", "full"}

\* if sound_log_writer: ... sound_log_writer.writerow(row): what becomes of
\* the row of one report_event call
CsvWrite(writer, disk) ==
    IF writer = "None" THEN "skipped"
    ELSE IF disk = "full" THEN "failed"
    ELSE "written"

\* Whether report_event ends with the exception of a failed writerow or
\* flush: neither is inside a try
CsvRaises(writer, disk) == CsvWrite(writer, disk) = "failed"

\* Mutant of PublishRaises: the publish is not inside try/except
PublishRaises_uncaught(publisher) == publisher = "exception"

\* Whether report_event ends with an exception of the publish: the publish
\* and the wait for it are inside try/except Exception
PublishRaises(publisher) == FALSE

\* report_event(camera_name, sound_class, event_type, timestamp): the call is
\* recorded with what became of its row of the sound log, the publishes it
\* made and whether it raised; an exception of the sound log ends the call
\* before the publish
report_event(st, camera_name, sound_class, event_type) ==
    LET raises == \/ CsvRaises(st.writer, st.disk)
                  \/ PublishRaises(st.publisher)
    IN  [st EXCEPT
           !.log = Append(@, [camera_name |-> camera_name,
                              sound_class |-> sound_class,
                              event_type |-> event_type,
                              csv |-> CsvWrite(st.writer, st.disk),
                              publishes |->
                                  IF CsvRaises(st.writer, st.disk) THEN <<>>
                                  ELSE Publishes(st.publisher, camera_name,
                                                 sound_class, event_type),
                              raised |-> raises]),
           !.raised = raises]

\* Mutant of StartCondition: persistence detections are not yet enough
StartCondition_late(w, settings) == CountTrue(w) > settings.persistence

\* Mutant of StartCondition: one detection too few starts an event
StartCondition_early(w, settings) == CountTrue(w) >= settings.persistence - 1

\* if window[sound_class].count(True) >= persistence
StartCondition(w, settings) == CountTrue(w) >= settings.persistence

\* Mutant of NotActive: the start branch does not look at active
NotActive_always(active, sound_class) == TRUE

\* if not active.get(sound_class, False)
NotActive(active, sound_class) == ~Get(active, sound_class, FALSE)

\* Mutant of DecayExpired: the stop comes one non-detection late
DecayExpired_late(remaining) == remaining < 0

\* if decay_cam[sound_class] <= 0
DecayExpired(remaining) == remaining <= 0

\* The body of the loop over sounds_to_track for one sound_class. st holds the
\* camera's dictionaries and the report_event calls made so far.
UpdateClass(st, camera_name, sound_class, detected_sounds, settings) ==
    LET is_detected == sound_class \in detected_sounds
        w == DequeAppend(Get(st.window, sound_class, <<>>), is_detected,
                         settings.window_detect)
        st1 == [st EXCEPT !.window = Put(st.window, sound_class, w)]
    IN  IF StartCondition(w, settings)
        THEN IF NotActive(st1.active, sound_class)
             THEN report_event(
                     [st1 EXCEPT
                        !.active = Put(st1.active, sound_class, TRUE),
                        !.decay_cam = Put(st1.decay_cam, sound_class, settings.decay),
                        !.counts = Put(st1.counts, sound_class,
                                       Get(st1.counts, sound_class, 0) + 1)],
                     camera_name, sound_class, "start")
             ELSE st1
        ELSE IF Get(st1.active, sound_class, FALSE)
             THEN IF sound_class \in detected_sounds
                  THEN [st1 EXCEPT
                          !.decay_cam = Put(st1.decay_cam, sound_class, settings.decay)]
                  ELSE LET remaining == st1.decay_cam[sound_class] - 1
                       IN  IF DecayExpired(remaining)
                           THEN report_event(
                                   [st1 EXCEPT
                                      !.decay_cam = Put(st1.decay_cam, sound_class,
                                                        remaining),
                                      !.active = Put(st1.active, sound_class, FALSE)],
                                   camera_name, sound_class, "stop")
                           ELSE [st1 EXCEPT
                                   !.decay_cam = Put(st1.decay_cam, sound_class, remaining)]
             ELSE st1

\* for sound_class in sounds_to_track: the first n classes, in order; an
\* exception out of report_event ends the loop
RECURSIVE UpdateClasses(_, _, _, _, _)
UpdateClasses(st, camera_name, n, detected_sounds, settings) ==
    IF n = 0 THEN st
    ELSE LET done == UpdateClasses(st, camera_name, n - 1, detected_sounds,
                                   settings)
         IN  IF done.raised THEN done
             ELSE UpdateClass(done, camera_name, sounds_to_track[n],
                              detected_sounds, settings)

\* The camera's dictionaries as update_sound_window finds them (created empty
\* on the camera's first call).
CameraState(camera_name) ==
    [window |-> Get(sound_windows, camera_name, <<>>),
     active |-> Get(active_sounds, camera_name, <<>>),
     decay_cam |-> Get(decay_counters, camera_name, <<>>),
     counts |-> Get(event_counts, camera_name, <<>>),
     log |-> <<>>,
     writer |-> sound_log_writer,
     disk |-> "ok",
     publisher |-> mqtt_client,
     raised |-> FALSE]

\* The report_event calls one update_sound_window call makes
Reports(camera_name, detected_sounds) ==
    IF shutdown_event THEN <<>>
    ELSE UpdateClasses(CameraState(camera_name), camera_name, Len(sounds_to_track),
                       detected_sounds, events_settings).log

\* What one pass of the loop over sounds_to_track leaves behind; an exception
\* that ends the loop leaves what the pass had done until then
Commit(camera_name, st) ==
    /\ sound_windows' = Put(sound_windows, camera_name, st.window)
    /\ active_sounds' = Put(active_sounds, camera_name, st.active)
    /\ decay_counters' = Put(decay_counters, camera_name, st.decay_cam)
    /\ event_counts' = Put(event_counts, camera_name, st.counts)
    /\ reported' = reported \o st.log

\* update_sound_window from `with state_lock` on
WithStateLock(camera_name, detected_sounds) ==
    Commit(camera_name,
           UpdateClasses(CameraState(camera_name), camera_name,
                         Len(sounds_to_track), detected_sounds, events_settings))

update_sound_window(camera_name, detected_sounds) ==
    IF shutdown_event
    THEN UNCHANGED <<sound_windows, active_sounds, decay_counters,
                     event_counts, reported>>
    ELSE WithStateLock(camera_name, detected_sounds)

\* log_summary, one pass of its loop: the counts of every camera are cleared
log_summary ==
    /\ ~shutdown_event
    /\ event_counts' = [c \in DOMAIN event_counts |-> <<>>]
    /\ UNCHANGED <<configVars, callbackVars, supervisorVars, workerVars,
                   frameVars, streamVars, scoreVars, shutdown_event, sound_windows,
                   active_sounds, decay_counters, reported>>

\* shutdown_event.set(): the signal handler, or CameraAudioStream.stop
SetShutdown ==
    /\ ~shutdown_event
    /\ shutdown_event' = TRUE
    /\ UNCHANGED <<configVars, callbackVars, supervisorVars, workerVars,
                   frameVars, streamVars, scoreVars, sound_windows, active_sounds,
                   decay_counters, event_counts, reported>>

-----------------------------------------------------------------------------
(* rank_sounds and its helpers; scores are hundredths *)

StrongScore == 70
BoostPerClass == 5
CompositeCap == 95
DefaultNoiseThreshold == 10
DefaultMinScore == 50
DefaultTopK == 10

DefaultGeneralSettings ==
    [noise_threshold |-> DefaultNoiseThreshold,
     top_k |-> DefaultTopK,
     default_min_score |-> DefaultMinScore]

\* The class map: each name is <<group, class>> for "group.class"
class_names ==
    << <<"dog", "bark">>, <<"dog", "howl">>, <<"dog", "growl">>,
       <<"glass", "shatter">>, <<"music", "piano">> >>

\* sounds: filters: {glass: {min_score: 0.6}}
sounds_filters == [glass |-> [min_score |-> 60]]

\* class_name.split('.')[0]
GroupOf(class_name) == class_name[1]

Min(a, b) == IF a <= b THEN a ELSE b

\* max(scores), as a left-to-right scan
RECURSIVE MaxOf(_)
MaxOf(s) ==
    IF Len(s) = 1 THEN s[1]
    ELSE LET m == MaxOf(SubSeq(s, 1, Len(s) - 1))
         IN  IF s[Len(s)] > m THEN s[Len(s)] ELSE m

\* [(i, score) for i, score in enumerate(scores[0]) if score >= noise_threshold]
Filtered(row, noise_threshold) ==
    SelectSeq([i \in DOMAIN row |-> [i |-> i, score |-> row[i]]],
              LAMBDA x : x.score >= noise_threshold)

\* group_scores.setdefault(group, []).append(score) on a dict kept as the
\* sequence of its items in insertion order
SetDefaultAppend(dict, group, score) ==
    IF \E k \in DOMAIN dict : dict[k].group = group
    THEN [k \in DOMAIN dict |->
            IF dict[k].group = group
            THEN [dict[k] EXCEPT !.scores = Append(@, score)]
            ELSE dict[k]]
    ELSE Append(dict, [group |-> group, scores |-> <<score>>])

RECURSIVE group_scores_by_prefix(_, _)
group_scores_by_prefix(filtered_scores, names) ==
    IF filtered_scores = <<>> THEN <<>>
    ELSE LET n == Len(filtered_scores)
             last == filtered_scores[n]
         IN  SetDefaultAppend(
                 group_scores_by_prefix(SubSeq(filtered_scores, 1, n - 1), names),
                 GroupOf(names[last.i]), last.score)

\* Mutant of CompositeScore: the boost is not capped
CompositeScore_uncapped(group_list) ==
    LET max_score == MaxOf(group_list)
    IN  IF max_score > StrongScore THEN max_score
        ELSE max_score + BoostPerClass * Len(group_list)

\* Mutant of CompositeScore: the boost is capped at 1.0
CompositeScore_cap_one(group_list) ==
    LET max_score == MaxOf(group_list)
    IN  IF max_score > StrongScore THEN max_score
        ELSE Min(max_score + BoostPerClass * Len(group_list), 100)

\* Mutant of CompositeScore: a maximum of exactly 0.7 counts as strong
CompositeScore_inclusive(group_list) ==
    LET max_score == MaxOf(group_list)
    IN  IF max_score >= StrongScore THEN max_score
        ELSE Min(max_score + BoostPerClass * Len(group_list), CompositeCap)

\* The body of the loop of calculate_composite_scores
CompositeScore(group_list) ==
    LET max_score == MaxOf(group_list)
    IN  IF max_score > StrongScore THEN max_score
        ELSE Min(max_score + BoostPerClass * Len(group_list), CompositeCap)

calculate_composite_scores(dict) ==
    [k \in DOMAIN dict |->
        [group |-> dict[k].group, score |-> CompositeScore(dict[k].scores)]]

\* sorted(composite_scores, key=lambda x: x[1], reverse=True): stable
RECURSIVE SortedDescending(_)
SortedDescending(s) ==
    IF s = <<>> THEN <<>>
    ELSE LET n == Len(s)
             head == SortedDescending(SubSeq(s, 1, n - 1))
             k == Cardinality({j \in DOMAIN head : head[j].score >= s[n].score})
         IN  SubSeq(head, 1, k) \o <<s[n]>> \o SubSeq(head, k + 1, Len(head))

\* Mutant of Truncate: the slice is missing
Truncate_none(s, k) == s

\* [:top_k]
Truncate(s, k) == SubSeq(s, 1, Min(k, Len(s)))

\* sounds_filters.get(group, {}).get('min_score', default_min_score)
MinScoreOf(group, settings) ==
    Get(Get(sounds_filters, group, <<>>), "min_score", settings.default_min_score)

\* The value rank_sounds returns for the score row
rank_sounds(row, settings, track, shutdown) ==
    IF shutdown THEN <<>>
    ELSE LET filtered == Filtered(row, settings.noise_threshold)
         IN  IF filtered = <<>> THEN <<>>
             ELSE LET group_dict == group_scores_by_prefix(filtered, class_names)
                      composite == calculate_composite_scores(group_dict)
                      sorted_composite ==
                          Truncate(SortedDescending(composite), settings.top_k)
                      admitted ==
                          SelectSeq(sorted_composite,
                                    LAMBDA x : /\ x.group \in Range(track)
                                               /\ x.score >= MinScoreOf(x.group, settings))
                  IN  [k \in DOMAIN admitted |->
                          [class |-> admitted[k].group, score |-> admitted[k].score]]

-----------------------------------------------------------------------------
(* The event engine under arbitrary window dispatches *)

\* The dictionaries of the event engine after the import
EngineFresh ==
    /\ shutdown_event = FALSE
    /\ sound_windows = <<>>
    /\ active_sounds = <<>>
    /\ decay_counters = <<>>
    /\ event_counts = <<>>
    /\ reported = <<>>

\* The import under the default sound_log = False: no sound log
EngineInit ==
    /\ EngineFresh
    /\ sound_log_writer = "None"

StreamIdle ==
    /\ script = <<>>
    /\ trace = <<>>

ScoreIdle ==
    /\ general_settings = DefaultGeneralSettings
    /\ scores = <<>>
    /\ group_scores = <<>>
    /\ composite_scores = <<>>
    /\ results = <<>>
    /\ returned = FALSE

\* No worker: nothing decoded, no read thread
FrameIdle ==
    /\ decoded = <<>>
    /\ at_eof = FALSE
    /\ read_pos = 0
    /\ raw_audio = <<>>
    /\ dispatched = <<>>
    /\ stream_running = FALSE
    /\ read_thread = "none"

\* No supervisor: CameraStreamSupervisor has not been constructed
SupervisorIdle ==
    /\ supervisor_running = FALSE
    /\ lock = "free"
    /\ streams = <<>>
    /\ workers = <<>>
    /\ supervisor_thread = [pc |-> "unstarted", i |-> 0]
    /\ main_thread = <<>>
    /\ signals = 0
    /\ stop_calls = <<>>
    /\ stop_all_returned = 0

\* No CameraAudioStream object: no decoder and none of its threads
WorkerIdle ==
    /\ stream_lock = "free"
    /\ process = "none"
    /\ ffmpeg_started_event = FALSE
    /\ stderr = 0
    /\ read_state = "none"
    /\ error_thread = "none"
    /\ timeout_thread = "none"
    /\ stopper = "none"
    /\ handled = <<>>
    /\ stopped_by = "none"

\* No waveform: what a tensor holds before its first use, and what a read
\* thread holds between two frames
NoWaveform == [camera_name |-> "none", sounds |-> {}]

\* No analyze_callback call is in progress and log_summary is not running
CallbackIdle ==
    /\ interpreter = [input |-> NoWaveform, output |-> NoWaveform]
    /\ callback = <<>>
    /\ state_lock = "free"
    /\ summary_thread = "none"
    /\ summaries = <<>>

Init ==
    /\ \E d \in Deployments :
          /\ camera_settings = d.cameras
          /\ sounds_to_track = d.track
    /\ events_settings \in SmallEventsSettings
    /\ EngineInit
    /\ StreamIdle
    /\ ScoreIdle
    /\ FrameIdle
    /\ SupervisorIdle
    /\ WorkerIdle
    /\ CallbackIdle

\* analyze_callback hands the detected tracked groups of one window of one
\* camera to update_sound_window
Dispatch ==
    /\ Len(reported) < MaxEvents
    /\ \E camera_name \in camera_settings :
       \E detected_sounds \in SUBSET Range(sounds_to_track) :
          update_sound_window(camera_name, detected_sounds)
    /\ UNCHANGED <<configVars, callbackVars, supervisorVars, workerVars,
                   frameVars, streamVars, scoreVars, shutdown_event>>

Next == Dispatch \/ log_summary \/ SetShutdown

Spec == Init /\ [][Next]_vars

-----------------------------------------------------------------------------
(* The event engine fed one detection stream of one group of one camera *)

BoolSeqs(n) == [1..n -> BOOLEAN]

Falses(n) == [i \in 1..n |-> FALSE]

\* Every stream of StreamLen windows, and every stream of window_detect windows
\* followed by non-detections for as long as a stop can take
Scripts(settings) ==
    BoolSeqs(StreamLen)
    \cup {p \o Falses(settings.decay + settings.window_detect) :
            p \in BoolSeqs(settings.window_detect)}

StreamInit ==
    /\ camera_settings = {"cam1"}
    /\ sounds_to_track = <<"dog">>
    /\ events_settings \in StreamSettings
    /\ EngineInit
    /\ script \in Scripts(events_settings)
    /\ trace = <<>>
    /\ ScoreIdle
    /\ FrameIdle
    /\ SupervisorIdle
    /\ WorkerIdle
    /\ CallbackIdle

\* The next window of the stream goes through update_sound_window
Feed ==
    /\ Len(trace) < Len(script)
    /\ LET detected_sounds == IF script[Len(trace) + 1] THEN {"dog"} ELSE {}
       IN  /\ update_sound_window("cam1", detected_sounds)
           /\ trace' = Append(trace, Reports("cam1", detected_sounds))
    /\ UNCHANGED <<configVars, callbackVars, supervisorVars, workerVars,
                   frameVars, scoreVars, shutdown_event, script>>

StreamNext == Feed

SpecStream == StreamInit /\ [][StreamNext]_vars

-----------------------------------------------------------------------------
(* The event engine with sound_log: true, on a disk that can fail *)

\* One camera tracking two groups; the sound log was created at import, or
\* its creation failed and the writer is None
CsvInit ==
    /\ camera_settings = {"cam1"}
    /\ sounds_to_track = <<"dog", "glass">>
    /\ events_settings \in SmallEventsSettings
    /\ sound_log_writer \in {"None", "writer"}
    /\ EngineFresh
    /\ StreamIdle
    /\ ScoreIdle
    /\ FrameIdle
    /\ SupervisorIdle
    /\ WorkerIdle
    /\ CallbackIdle

\* analyze_callback hands the detected tracked groups of one window to
\* update_sound_window; an exception out of update_sound_window is caught
\* and logged by analyze_callback
DispatchCsv ==
    /\ Len(reported) < MaxEvents
    /\ \E camera_name \in camera_settings :
       \E detected_sounds \in SUBSET Range(sounds_to_track) :
       \E disk \in Disks :
          Commit(camera_name,
                 UpdateClasses([CameraState(camera_name) EXCEPT !.disk = disk],
                               camera_name, Len(sounds_to_track),
                               detected_sounds, events_settings))
    /\ UNCHANGED <<configVars, callbackVars, supervisorVars, workerVars,
                   frameVars, streamVars, scoreVars, shutdown_event>>

CsvNext == DispatchCsv

SpecCsv == CsvInit /\ [][CsvNext]_vars

-----------------------------------------------------------------------------
(* CameraAudioStream.read_stream: the frame assembler of one started worker *)

\* Mutant of ReadSize: every read asks for a whole buffer
ReadSize_whole(raw) == buffer_size

\* self.buffer_size - len(raw_audio)
ReadSize(raw) == buffer_size - Len(raw)

\* start() has launched the decoder and the read thread
FrameInit ==
    /\ camera_settings = {"cam1"}
    /\ sounds_to_track = <<"dog">>
    /\ events_settings = DefaultEventsSettings
    /\ EngineInit
    /\ StreamIdle
    /\ ScoreIdle
    /\ SupervisorIdle
    /\ WorkerIdle
    /\ CallbackIdle
    /\ decoded = <<>>
    /\ at_eof = FALSE
    /\ read_pos = 0
    /\ raw_audio = <<>>
    /\ dispatched = <<>>
    /\ stream_running = TRUE
    /\ read_thread = "alive"

\* The decoder writes one more byte of PCM to its stdout
DecoderWrite ==
    /\ ~at_eof
    /\ Len(decoded) < MaxBytes
    /\ \E byte \in {0, 1} : decoded' = Append(decoded, byte)
    /\ UNCHANGED <<configVars, callbackVars, supervisorVars, workerVars,
                   engineVars, streamVars, scoreVars, at_eof, read_pos,
                   raw_audio, dispatched, stream_running, read_thread>>

\* The decoder exits
DecoderExit ==
    /\ ~at_eof
    /\ at_eof' = TRUE
    /\ UNCHANGED <<configVars, callbackVars, supervisorVars, workerVars,
                   engineVars, streamVars, scoreVars, decoded, read_pos,
                   raw_audio, dispatched, stream_running, read_thread>>

\* One pass of the loop of read_stream. The non-blocking read returns between
\* one byte and the bytes asked for of what the pipe holds; with the pipe
\* empty it returns None (or b"" at end of file) and the pass only sleeps.
ReadStream ==
    /\ read_thread = "alive"
    /\ stream_running /\ ~shutdown_event
    /\ LET available == Len(decoded) - read_pos
           most == Min(ReadSize(raw_audio), available)
       IN  IF most <= 0
           THEN UNCHANGED <<read_pos, raw_audio, dispatched>>
           ELSE \E n \in 1..most :
                   LET chunk == SubSeq(decoded, read_pos + 1, read_pos + n)
                       buffer == raw_audio \o chunk
                   IN  /\ read_pos' = read_pos + n
                       /\ IF Len(buffer) >= buffer_size
                          THEN /\ dispatched' = Append(dispatched, buffer)
                               /\ raw_audio' = <<>>
                          ELSE /\ dispatched' = dispatched
                               /\ raw_audio' = buffer
    /\ UNCHANGED <<configVars, callbackVars, supervisorVars, workerVars,
                   engineVars, streamVars, scoreVars, decoded, at_eof,
                   stream_running, read_thread>>

\* The loop of read_stream ends (running cleared or shutdown set; a read on the
\* pipes that stop() closed raises and breaks out) and the thread returns
ReadStreamExit ==
    /\ read_thread = "alive"
    /\ read_state # "update"
    /\ ~stream_running \/ shutdown_event
    /\ read_thread' = "exited"
    /\ raw_audio' = <<>>
    /\ UNCHANGED <<configVars, callbackVars, supervisorVars, workerVars,
                   engineVars, streamVars, scoreVars, decoded, at_eof,
                   read_pos, dispatched, stream_running>>

\* read_stream: a statement of the loop body raises something other than
\* BlockingIOError (the read of the decoder's output fails); the handler logs
\* it and leaves the loop with `break`
ReadStreamRaises ==
    /\ read_thread = "alive"
    /\ read_state # "update"
    /\ stream_running /\ ~shutdown_event
    /\ read_thread' = "exited"
    /\ raw_audio' = <<>>
    /\ UNCHANGED <<configVars, callbackVars, supervisorVars, workerVars,
                   engineVars, streamVars, scoreVars, decoded, at_eof,
                   read_pos, dispatched, stream_running>>

\* CameraAudioStream.stop: clears running, sets the shutdown event it was
\* given and terminates the decoder
StopStream ==
    /\ stream_running
    /\ stream_running' = FALSE
    /\ shutdown_event' = TRUE
    /\ at_eof' = TRUE
    /\ UNCHANGED <<configVars, callbackVars, supervisorVars, workerVars,
                   streamVars, scoreVars, sound_windows, active_sounds,
                   decay_counters, event_counts, reported, decoded, read_pos,
                   raw_audio, dispatched, read_thread>>

FrameNext ==
    DecoderWrite \/ DecoderExit \/ ReadStream \/ ReadStreamExit \/ StopStream
    \/ SetShutdown

SpecFrames == FrameInit /\ [][FrameNext]_vars

-----------------------------------------------------------------------------
(* CameraStreamSupervisor and the main thread of yamcam.py.  A worker is   *)
(* seen from outside here: its running flag and its decoder subprocess.    *)
(* CameraAudioStream.stop() holds the worker's lock from its first         *)
(* statement to its last; called by stop_all_streams, under the            *)
(* supervisor's lock, it is one step.  The stop() of a worker on itself is *)
(* two steps, the flags and then the decoder, because the monitor thread   *)
(* reads the running flag without the worker's lock.                       *)

\* camera_configs.keys(), in configuration order
CameraNames == SelectSeq(<<"cam1", "cam2">>, LAMBDA c : c \in camera_settings)

\* A frame of the main thread's call stack
Frame(fn, pc, i, todo) == [fn |-> fn, pc |-> pc, i |-> i, todo |-> todo]

\* The innermost frame of the main thread: the code it is executing
Top == main_thread[Len(main_thread)]

\* The module-level code of yamcam.py, which every handler frame interrupts
Bottom == main_thread[1]

ReplaceTop(frame) == [main_thread EXCEPT ![Len(main_thread)] = frame]

Pop == SubSeq(main_thread, 1, Len(main_thread) - 1)

InFrame(fn, pc) == main_thread # <<>> /\ Top.fn = fn /\ Top.pc = pc

\* CameraAudioStream.stop() on the worker object w, called by thread `by`
Stopped(w, by) ==
    IF ~w.running THEN w
    ELSE [w EXCEPT !.running = FALSE,
                   !.process = IF @ = "alive" THEN "terminated" ELSE @,
                   !.stopped_by = by]

\* A thread of the worker w is inside stop(), holding the worker's lock: the
\* running flag is cleared and the decoder not yet terminated
Stopping(w) == ~w.running /\ w.process = "alive"

\* CameraAudioStream(...) followed by start(): the decoder is launched and the
\* worker runs, or Popen fails and start() returns with running cleared
Started(camera_name, outcome) ==
    [camera_name |-> camera_name,
     running |-> (outcome = "started"),
     process |-> IF outcome = "started" THEN "alive" ELSE "none",
     stopped_by |-> "none"]

\* The thread t is inside start_stream, before the stream is created
Starting(t) ==
    IF t = "main"
    THEN InFrame("main", "start_all") /\ Top.i <= Len(CameraNames)
    ELSE supervisor_thread.pc = "restart"

\* The thread t is inside start_stream, at `with self.lock`
Registering(t) ==
    IF t = "main" THEN InFrame("main", "register")
    ELSE supervisor_thread.pc = "register"

\* The camera the thread t is starting a stream for
CameraOf(t) ==
    CameraNames[IF t = "main" THEN Top.i ELSE supervisor_thread.i]

\* The construction of the supervisor (yamcam.py line 111) has returned and
\* start_all_streams is about to run
SupervisorInit ==
    /\ camera_settings \in {{"cam1"}, {"cam1", "cam2"}}
    /\ sounds_to_track = <<"dog">>
    /\ events_settings = DefaultEventsSettings
    /\ EngineInit
    /\ StreamIdle
    /\ ScoreIdle
    /\ FrameIdle
    /\ WorkerIdle
    /\ CallbackIdle
    /\ supervisor_running = TRUE
    /\ lock = "free"
    /\ streams = <<>>
    /\ workers = <<>>
    /\ supervisor_thread = [pc |-> "unstarted", i |-> 0]
    /\ main_thread = <<Frame("main", "start_all", 1, <<>>)>>
    /\ signals = 0
    /\ stop_calls = <<>>
    /\ stop_all_returned = 0

\* start_stream up to the return of stream.start().  An exception inside the
\* try block ends in sys.exit(1): SystemExit unwinds the calling thread, which
\* leaves its `with self.lock` block on the way.
StartStream(t) ==
    /\ Starting(t)
    /\ Len(workers) < MaxWorkers
    /\ \E outcome \in {"started", "popen_failed", "raised"} :
          IF outcome = "raised"
          THEN /\ IF t = "main"
                  THEN /\ main_thread' = <<Frame("main", "exited", 0, <<>>)>>
                       /\ UNCHANGED <<supervisor_thread, lock>>
                  ELSE /\ supervisor_thread' = [pc |-> "dead", i |-> 0]
                       /\ lock' = "free"
                       /\ UNCHANGED main_thread
               /\ UNCHANGED workers
          ELSE /\ workers' = Append(workers, Started(CameraOf(t), outcome))
               /\ IF t = "main"
                  THEN /\ main_thread' =
                            ReplaceTop(Frame("main", "register", Top.i,
                                             <<Len(workers) + 1>>))
                       /\ UNCHANGED supervisor_thread
                  ELSE /\ supervisor_thread' =
                            [supervisor_thread EXCEPT !.pc = "register"]
                       /\ UNCHANGED main_thread
               /\ UNCHANGED lock
    /\ UNCHANGED <<configVars, callbackVars, engineVars, streamVars, scoreVars, frameVars,
                   workerVars, supervisor_running, streams, signals, stop_calls,
                   stop_all_returned>>

\* start_stream from `with self.lock` on: the stream just started is entered
\* in self.streams.  The thread waits for the lock like any other, also when
\* it is the monitor thread, which took the lock at the start of its tick.
Register(t) ==
    /\ Registering(t)
    /\ lock = "free"
    /\ streams' = Put(streams, CameraOf(t),
                      IF t = "main" THEN Top.todo[1] ELSE Len(workers))
    /\ IF t = "main"
       THEN /\ main_thread' = ReplaceTop(Frame("main", "start_all", Top.i + 1, <<>>))
            /\ UNCHANGED supervisor_thread
       ELSE /\ supervisor_thread' = [pc |-> "tick", i |-> supervisor_thread.i + 1]
            /\ UNCHANGED main_thread
    /\ UNCHANGED <<configVars, callbackVars, engineVars, streamVars, scoreVars, frameVars,
                   workerVars, supervisor_running, lock, workers, signals,
                   stop_calls, stop_all_returned>>

start_stream == \E t \in {"main", "monitor"} : StartStream(t) \/ Register(t)

\* start_all_streams after its loop: self.supervisor_thread.start(); the main
\* thread goes on to its loop
StartSupervisorThread ==
    /\ InFrame("main", "start_all")
    /\ Top.i > Len(CameraNames)
    /\ supervisor_thread' = [pc |-> "loop", i |-> 0]
    /\ main_thread' = ReplaceTop(Frame("main", "loop", 0, <<>>))
    /\ UNCHANGED <<configVars, callbackVars, engineVars, streamVars, scoreVars, frameVars,
                   workerVars, supervisor_running, lock, streams, workers, signals,
                   stop_calls, stop_all_returned>>

\* The frames of `finally: supervisor.stop_all_streams()`
Finally == <<Frame("main", "finally", 0, <<>>),
             Frame("stop_all_streams", "lock", 0, <<>>)>>

\* The main loop ends once the shutdown event is set (the global `running` is
\* cleared only by the handler, which sets the event in the same breath) and
\* the finally clause calls stop_all_streams
MainLoop ==
    /\ InFrame("main", "loop")
    /\ shutdown_event
    /\ main_thread' = Finally
    /\ UNCHANGED <<configVars, callbackVars, engineVars, streamVars, scoreVars, frameVars,
                   workerVars, supervisor_running, lock, streams, workers,
                   supervisor_thread, signals, stop_calls, stop_all_returned>>

\* After the stop_all_streams of the finally clause: the remaining threads
\* are joined with a timeout and sys.exit(0) ends the main thread
MainExit ==
    /\ InFrame("main", "finally")
    /\ main_thread' = <<Frame("main", "exited", 0, <<>>)>>
    /\ UNCHANGED <<configVars, callbackVars, engineVars, streamVars, scoreVars, frameVars,
                   workerVars, supervisor_running, lock, streams, workers,
                   supervisor_thread, signals, stop_calls, stop_all_returned>>

\* SIGINT or SIGTERM is delivered: the interpreter runs shutdown(signum, frame)
\* on the main thread, on top of whatever that thread is executing or waiting
\* for
Signal ==
    /\ signals < MaxSignals
    /\ main_thread # <<>>
    /\ Bottom.pc # "exited"
    /\ signals' = signals + 1
    /\ main_thread' = Append(main_thread, Frame("shutdown", "set", 0, <<>>))
    /\ UNCHANGED <<configVars, callbackVars, engineVars, streamVars, scoreVars, frameVars,
                   workerVars, supervisor_running, lock, streams, workers,
                   supervisor_thread, stop_calls, stop_all_returned>>

\* shutdown(): running = False, both shutdown_event.set() calls, then the
\* call of supervisor.stop_all_streams()
shutdown ==
    /\ InFrame("shutdown", "set")
    /\ shutdown_event' = TRUE
    /\ main_thread' = Append(ReplaceTop(Frame("shutdown", "exit", 0, <<>>)),
                             Frame("stop_all_streams", "lock", 0, <<>>))
    /\ UNCHANGED <<configVars, callbackVars, streamVars, scoreVars, frameVars, workerVars,
                   sound_windows, active_sounds, decay_counters, event_counts,
                   reported, supervisor_running, lock, streams, workers,
                   supervisor_thread, signals, stop_calls, stop_all_returned>>

\* shutdown(): sys.exit(0).  SystemExit unwinds every frame of the main thread
\* and releases the supervisor lock if one of them holds it; raised inside
\* the try block of the main loop it runs the finally clause.
SysExit ==
    /\ InFrame("shutdown", "exit")
    /\ main_thread' = IF Bottom.pc = "loop" THEN Finally
                      ELSE <<Frame("main", "exited", 0, <<>>)>>
    /\ lock' = IF lock = "main" THEN "free" ELSE lock
    /\ UNCHANGED <<configVars, callbackVars, engineVars, streamVars, scoreVars, frameVars,
                   workerVars, supervisor_running, streams, workers,
                   supervisor_thread, signals, stop_calls, stop_all_returned>>

\* Mutant of AlreadyStopped: stop_all_streams does not look at self.running
AlreadyStopped_never(is_running) == FALSE

\* if not self.running: return
AlreadyStopped(is_running) == ~is_running

\* list(self.streams.values())
Snapshot == [k \in 1..Len(SelectSeq(CameraNames, LAMBDA c : c \in DOMAIN streams)) |->
               streams[SelectSeq(CameraNames, LAMBDA c : c \in DOMAIN streams)[k]]]

\* stop_all_streams from `with self.lock` to the snapshot of the streams: an
\* invocation that finds running cleared returns at once
StopAllEnter ==
    /\ InFrame("stop_all_streams", "lock")
    /\ lock = "free"
    /\ IF AlreadyStopped(supervisor_running)
       THEN /\ main_thread' = Pop
            /\ stop_all_returned' = stop_all_returned + 1
            /\ UNCHANGED <<supervisor_running, shutdown_event, lock>>
       ELSE /\ supervisor_running' = FALSE
            /\ shutdown_event' = TRUE
            /\ lock' = "main"
            /\ main_thread' = ReplaceTop(Frame("stop_all_streams", "stop", 0, Snapshot))
            /\ UNCHANGED stop_all_returned
    /\ UNCHANGED <<configVars, callbackVars, streamVars, scoreVars, frameVars, workerVars,
                   sound_windows, active_sounds, decay_counters, event_counts,
                   reported, streams, workers, supervisor_thread, signals,
                   stop_calls>>

\* stop_all_streams: stream.stop() on the next stream of the snapshot, which
\* waits for the worker's lock while the worker is stopping itself
StopAllStop ==
    /\ InFrame("stop_all_streams", "stop")
    /\ Top.todo # <<>>
    /\ ~Stopping(workers[Head(Top.todo)])
    /\ LET w == Head(Top.todo)
       IN  /\ workers' = [workers EXCEPT ![w] = Stopped(@, "stop_all_streams")]
           /\ shutdown_event' = (shutdown_event \/ workers[w].running)
           /\ stop_calls' = Append(stop_calls, w)
    /\ main_thread' = ReplaceTop([Top EXCEPT !.todo = Tail(@)])
    /\ UNCHANGED <<configVars, callbackVars, streamVars, scoreVars, frameVars, workerVars,
                   sound_windows, active_sounds, decay_counters, event_counts,
                   reported, supervisor_running, lock, streams, supervisor_thread,
                   signals, stop_all_returned>>

\* stop_all_streams: the end of the `with self.lock` block
StopAllRelease ==
    /\ InFrame("stop_all_streams", "stop")
    /\ Top.todo = <<>>
    /\ lock' = "free"
    /\ main_thread' = ReplaceTop(Frame("stop_all_streams", "join", 0, <<>>))
    /\ UNCHANGED <<configVars, callbackVars, engineVars, streamVars, scoreVars, frameVars,
                   workerVars, supervisor_running, streams, workers,
                   supervisor_thread, signals, stop_calls, stop_all_returned>>

\* stop_all_streams: self.supervisor_thread.join(timeout=5) comes back when
\* the monitor thread has ended, after 5 s, or with the RuntimeError of a
\* thread that was never started, which is caught; the invocation returns
StopAllJoin ==
    /\ InFrame("stop_all_streams", "join")
    /\ main_thread' = Pop
    /\ stop_all_returned' = stop_all_returned + 1
    /\ UNCHANGED <<configVars, callbackVars, engineVars, streamVars, scoreVars, frameVars,
                   workerVars, supervisor_running, lock, streams, workers,
                   supervisor_thread, signals, stop_calls>>

stop_all_streams == StopAllEnter \/ StopAllStop \/ StopAllRelease \/ StopAllJoin

\* A running worker stops itself: its diagnostic thread has read a fatal line
\* (_handle_stderr_line) or its watchdog has expired (_timeout_monitor), and
\* calls self.stop(), which clears self.running and sets the shutdown event
WorkerStop ==
    /\ \E w \in DOMAIN workers : \E by \in {"error_thread", "timeout_thread"} :
          /\ workers[w].running
          /\ workers' = [workers EXCEPT ![w].running = FALSE,
                                        ![w].stopped_by = by]
    /\ shutdown_event' = TRUE
    /\ UNCHANGED <<configVars, callbackVars, streamVars, scoreVars, frameVars, workerVars,
                   sound_windows, active_sounds, decay_counters, event_counts,
                   reported, supervisor_running, lock, streams, supervisor_thread,
                   main_thread, signals, stop_calls, stop_all_returned>>

\* stop() of a worker on itself, from `if self.process` on: the decoder is
\* terminated, or killed after 5 s, and the worker's lock is released
WorkerTerminate ==
    /\ \E w \in DOMAIN workers :
          /\ Stopping(workers[w])
          /\ workers' = [workers EXCEPT ![w].process = "terminated"]
    /\ UNCHANGED shutdown_event
    /\ UNCHANGED <<configVars, callbackVars, streamVars, scoreVars, frameVars, workerVars,
                   sound_windows, active_sounds, decay_counters, event_counts,
                   reported, supervisor_running, lock, streams, supervisor_thread,
                   main_thread, signals, stop_calls, stop_all_returned>>

\* monitor_streams: while self.running and not self.shutdown_event.is_set()
MonitorLoop ==
    /\ supervisor_thread.pc = "loop"
    /\ supervisor_thread' =
          [pc |-> IF supervisor_running /\ ~shutdown_event THEN "sleep" ELSE "done",
           i |-> 0]
    /\ UNCHANGED <<configVars, callbackVars, engineVars, streamVars, scoreVars, frameVars,
                   workerVars, supervisor_running, lock, streams, workers,
                   main_thread, signals, stop_calls, stop_all_returned>>

\* monitor_streams: time.sleep(60) is over and `with self.lock` is entered
MonitorTick ==
    /\ supervisor_thread.pc = "sleep"
    /\ lock = "free"
    /\ lock' = "monitor"
    /\ supervisor_thread' = [pc |-> "tick", i |-> 1]
    /\ UNCHANGED <<configVars, callbackVars, engineVars, streamVars, scoreVars, frameVars,
                   workerVars, supervisor_running, streams, workers, main_thread,
                   signals, stop_calls, stop_all_returned>>

\* stream = self.streams.get(camera_name); if not stream or not stream.running
NeedsRestart(camera_name) ==
    \/ camera_name \notin DOMAIN streams
    \/ ~workers[streams[camera_name]].running

\* monitor_streams: the head of the loop over the cameras and the test of
\* the shutdown event; after the last camera, or with the shutdown event set,
\* the `with self.lock` block ends
MonitorCheck ==
    /\ supervisor_thread.pc = "tick"
    /\ IF supervisor_thread.i > Len(CameraNames) \/ shutdown_event
       THEN /\ lock' = "free"
            /\ supervisor_thread' = [pc |-> "loop", i |-> 0]
       ELSE /\ supervisor_thread' = [supervisor_thread EXCEPT !.pc = "look"]
            /\ UNCHANGED lock
    /\ UNCHANGED <<configVars, callbackVars, engineVars, streamVars, scoreVars, frameVars,
                   workerVars, supervisor_running, streams, workers, main_thread,
                   signals, stop_calls, stop_all_returned>>

\* monitor_streams: the camera's stream is looked up and its running flag
\* read, up to the call of start_stream
MonitorLook ==
    /\ supervisor_thread.pc = "look"
    /\ supervisor_thread' =
          IF NeedsRestart(CameraNames[supervisor_thread.i])
          THEN [supervisor_thread EXCEPT !.pc = "restart"]
          ELSE [pc |-> "tick", i |-> supervisor_thread.i + 1]
    /\ UNCHANGED <<configVars, callbackVars, engineVars, streamVars, scoreVars, frameVars,
                   workerVars, supervisor_running, lock, streams, workers,
                   main_thread, signals, stop_calls, stop_all_returned>>

monitor_streams == MonitorLoop \/ MonitorTick \/ MonitorCheck \/ MonitorLook

\* stream_stopped: the worker's entry is deleted from self.streams.  No code
\* of the supervisor, of CameraAudioStream or of yamcam.py calls it, so it is
\* not among the steps of the program.
stream_stopped(camera_name) ==
    /\ lock = "free"
    /\ streams' = [c \in DOMAIN streams \ {camera_name} |-> streams[c]]
    /\ UNCHANGED <<configVars, callbackVars, engineVars, streamVars, scoreVars, frameVars,
                   workerVars, supervisor_running, lock, workers,
                   supervisor_thread, main_thread, signals, stop_calls,
                   stop_all_returned>>

SupervisorNext ==
    \/ start_stream
    \/ StartSupervisorThread
    \/ MainLoop
    \/ MainExit
    \/ Signal
    \/ shutdown
    \/ SysExit
    \/ stop_all_streams
    \/ WorkerStop
    \/ WorkerTerminate
    \/ monitor_streams

SpecSupervisor == SupervisorInit /\ [][SupervisorNext]_vars

\* The steps of the main thread and of the monitor thread: each thread that
\* can run is eventually scheduled, and so is a worker's thread that is
\* inside stop().  The delivery of a signal and the failure of a worker are
\* up to the environment.
MainNext ==
    \/ StartStream("main") \/ Register("main")
    \/ StartSupervisorThread \/ MainLoop \/ MainExit
    \/ shutdown \/ SysExit \/ stop_all_streams

MonitorNext ==
    \/ StartStream("monitor") \/ Register("monitor")
    \/ monitor_streams

SpecSupervisorLive ==
    SupervisorInit /\ [][SupervisorNext]_vars
    /\ WF_vars(MainNext) /\ WF_vars(MonitorNext) /\ WF_vars(WorkerTerminate)

-----------------------------------------------------------------------------
(* One CameraAudioStream with its three threads, and the stop_all_streams  *)
(* call that stops it.  stream_running is its running flag and read_thread *)
(* its read thread, as in the frame assembler above; a frame is taken here *)
(* as assembled whenever the decoder is alive, its bytes are left out and  *)
(* dispatched only counts the frames.                                      *)

\* The substrings _handle_stderr_line looks for, in the order of its chain
FatalPatterns ==
    {"401 Unauthorized", "No route to host", "Connection refused",
     "403 Forbidden", "timed out"}

ReadyMarker == "Press [q] to stop"

\* A diagnostic line, as the set of those substrings it contains
DiagnosticLines ==
    {{}} \cup {{p} : p \in FatalPatterns \cup {ReadyMarker}}
    \cup {{"timed out", ReadyMarker}}

\* Mutant of IsFatal: "timed out" is not looked for
IsFatal_no_timed_out(line) == \E p \in FatalPatterns \ {"timed out"} : p \in line

\* The first five branches of _handle_stderr_line, each of which calls stop()
IsFatal(line) == \E p \in FatalPatterns : p \in line

\* _handle_stderr_line: what the chain does with the line
HandleLine(line) ==
    IF IsFatal(line) THEN "stop"
    ELSE IF ReadyMarker \in line THEN "started"
    ELSE "ignored"

\* Mutant of WatchdogFires: the watchdog does not look at the outcome of wait
WatchdogFires_always(started) == TRUE

\* if not self.ffmpeg_started_event.wait(timeout_duration)
WatchdogFires(started) == ~started

\* The smallest valid event settings: a start on the first detection
WorkerEventsSettings == [window_detect |-> 1, persistence |-> 1, decay |-> 1]

\* The position of thread t, one of the callers of stop()
PcOf(t) ==
    IF t = "error_thread" THEN error_thread
    ELSE IF t = "timeout_thread" THEN timeout_thread
    ELSE stopper

SetPc(t, pc) ==
    /\ error_thread' = IF t = "error_thread" THEN pc ELSE error_thread
    /\ timeout_thread' = IF t = "timeout_thread" THEN pc ELSE timeout_thread
    /\ stopper' = IF t = "main" THEN pc ELSE stopper

\* Where thread t goes on when its stop() call returns
AfterStop(t) ==
    IF t = "error_thread" THEN "loop"
    ELSE IF t = "timeout_thread" THEN "exited"
    ELSE "join"

\* The threads stop() joins that have not ended: every thread of the worker
\* but the calling one
StillAlive(t) ==
    \/ read_thread = "alive"
    \/ t # "error_thread" /\ error_thread \notin {"none", "exited"}
    \/ t # "timeout_thread" /\ timeout_thread \notin {"none", "exited"}

\* start() has returned: the decoder and the three threads have been started
WorkerInit ==
    /\ camera_settings = {"cam1"}
    /\ sounds_to_track = <<"dog">>
    /\ events_settings = WorkerEventsSettings
    /\ EngineInit
    /\ StreamIdle
    /\ ScoreIdle
    /\ decoded = <<>>
    /\ at_eof = FALSE
    /\ read_pos = 0
    /\ raw_audio = <<>>
    /\ dispatched = <<>>
    /\ stream_running = TRUE
    /\ read_thread = "alive"
    /\ supervisor_running = TRUE
    /\ lock = "free"
    /\ streams = <<>>
    /\ workers = <<>>
    /\ supervisor_thread = [pc |-> "unstarted", i |-> 0]
    /\ main_thread = <<>>
    /\ signals = 0
    /\ stop_calls = <<>>
    /\ stop_all_returned = 0
    /\ stream_lock = "free"
    /\ process = "alive"
    /\ ffmpeg_started_event = FALSE
    /\ stderr = 0
    /\ read_state = "loop"
    /\ error_thread = "begin"
    /\ timeout_thread = "waiting"
    /\ stopper = "none"
    /\ handled = <<>>
    /\ stopped_by = "none"
    /\ CallbackIdle

\* The decoder writes a line to its diagnostic channel, which holds up to
\* MaxLines unread lines; what the line says is drawn when it is read
DecoderWriteLine ==
    /\ process = "alive"
    /\ stderr < MaxLines
    /\ stderr' = stderr + 1
    /\ UNCHANGED <<configVars, callbackVars, engineVars, streamVars, scoreVars, frameVars,
                   supervisorVars, stream_lock, process, ffmpeg_started_event,
                   read_state, error_thread, timeout_thread, stopper, handled,
                   stopped_by>>

\* The decoder subprocess exits by itself: its pipes are at end of file
DecoderExits ==
    /\ process = "alive"
    /\ process' = "exited"
    /\ UNCHANGED <<configVars, callbackVars, engineVars, streamVars, scoreVars, frameVars,
                   supervisorVars, stream_lock, ffmpeg_started_event, stderr,
                   read_state, error_thread, timeout_thread, stopper, handled,
                   stopped_by>>

\* read_stream has assembled a frame and calls analyze_callback, which runs
\* up to the last look at the shutdown event, the first statement of
\* update_sound_window; every earlier look found it unset as well
ReadFrame ==
    /\ read_thread = "alive"
    /\ read_state = "loop"
    /\ stream_running /\ ~shutdown_event
    /\ process = "alive"
    /\ Len(dispatched) < MaxFrames
    /\ dispatched' = Append(dispatched, <<>>)
    /\ read_state' = "update"
    /\ UNCHANGED <<configVars, callbackVars, engineVars, streamVars, scoreVars, supervisorVars,
                   decoded, at_eof, read_pos, raw_audio, stream_running,
                   read_thread, stream_lock, process, ffmpeg_started_event,
                   stderr, error_thread, timeout_thread, stopper, handled,
                   stopped_by>>

\* update_sound_window from `with state_lock` on, and the return to the loop
\* of read_stream
UpdateWindow ==
    /\ read_state = "update"
    /\ \E detected_sounds \in SUBSET Range(sounds_to_track) :
          WithStateLock("cam1", detected_sounds)
    /\ read_state' = "loop"
    /\ UNCHANGED <<configVars, callbackVars, streamVars, scoreVars, frameVars, supervisorVars,
                   shutdown_event, stream_lock, process, ffmpeg_started_event,
                   stderr, error_thread, timeout_thread, stopper, handled,
                   stopped_by>>

\* read_stderr before its loop: if not self.process or self.process.poll()
\* is not None: return
ReadStderrBegin ==
    /\ error_thread = "begin"
    /\ error_thread' = IF process = "alive" THEN "loop" ELSE "exited"
    /\ UNCHANGED <<configVars, callbackVars, engineVars, streamVars, scoreVars, frameVars,
                   supervisorVars, stream_lock, process, ffmpeg_started_event,
                   stderr, read_state, timeout_thread, stopper, handled,
                   stopped_by>>

\* One pass of the loop of read_stderr that reads a line, with
\* _handle_stderr_line up to its call of self.stop(); with no line to read
\* the pass only sleeps
ReadStderr ==
    /\ error_thread = "loop"
    /\ stream_running /\ ~shutdown_event
    /\ stderr > 0
    /\ stderr' = stderr - 1
    /\ \E line \in DiagnosticLines :
          /\ handled' = <<line>>
          /\ error_thread' = IF HandleLine(line) = "stop" THEN "stop" ELSE "loop"
          /\ ffmpeg_started_event' =
                (ffmpeg_started_event \/ HandleLine(line) = "started")
    /\ UNCHANGED <<configVars, callbackVars, engineVars, streamVars, scoreVars, frameVars,
                   supervisorVars, stream_lock, process, read_state,
                   timeout_thread, stopper, stopped_by>>

\* The loop of read_stderr ends and the thread returns
ReadStderrExit ==
    /\ error_thread = "loop"
    /\ ~stream_running \/ shutdown_event
    /\ error_thread' = "exited"
    /\ UNCHANGED <<configVars, callbackVars, engineVars, streamVars, scoreVars, frameVars,
                   supervisorVars, stream_lock, process, ffmpeg_started_event,
                   stderr, read_state, timeout_thread, stopper, handled,
                   stopped_by>>

\* _timeout_monitor: the wait returns True as soon as the event is set, and
\* False once 30 s have gone by without it
TimeoutMonitor ==
    /\ timeout_thread = "waiting"
    /\ \/ /\ ffmpeg_started_event
          /\ timeout_thread' = "exited"
       \/ /\ WatchdogFires(ffmpeg_started_event)
          /\ timeout_thread' = "stop"
    /\ UNCHANGED <<configVars, callbackVars, engineVars, streamVars, scoreVars, frameVars,
                   supervisorVars, stream_lock, process, ffmpeg_started_event,
                   stderr, read_state, error_thread, stopper, handled,
                   stopped_by>>

\* stop_all_streams up to its call of stream.stop()
StopAllStreams ==
    /\ stopper = "none"
    /\ lock = "free"
    /\ supervisor_running
    /\ supervisor_running' = FALSE
    /\ shutdown_event' = TRUE
    /\ lock' = "main"
    /\ stopper' = "stop"
    /\ UNCHANGED <<configVars, callbackVars, streamVars, scoreVars, frameVars, sound_windows,
                   active_sounds, decay_counters, event_counts, reported,
                   streams, workers, supervisor_thread, main_thread, signals,
                   stop_calls, stop_all_returned, stream_lock, process,
                   ffmpeg_started_event, stderr, read_state, error_thread,
                   timeout_thread, handled, stopped_by>>

\* Mutant of AlreadyStoppedStream: stop() does not look at the running flag
AlreadyStoppedStream_never(running) == FALSE

\* stop(): if not self.running: return
AlreadyStoppedStream(running) == ~running

\* stop(): terminate(), wait(timeout=5) and, when the wait times out because
\* the decoder has not obeyed, kill() and wait(); a decoder that has exited
\* already is reaped by the first wait
AfterTerminate(state, obeys) ==
    IF state = "alive" /\ ~obeys THEN "killed" ELSE "terminated"

\* Mutant of JoinReturns: the joins have no timeout
JoinReturns_no_timeout(alive) == ~alive

\* thread.join(timeout=5) is over when the thread has ended, or when the
\* timeout has run out on a thread that has not
JoinReturns(alive) == ~alive \/ alive

\* stop() from `with self.lock` to the closing of the decoder's pipes: a call
\* that finds running cleared returns at once
StopEnter(t) ==
    /\ PcOf(t) = "stop"
    /\ stream_lock = "free"
    /\ IF AlreadyStoppedStream(stream_running)
       THEN /\ SetPc(t, AfterStop(t))
            /\ UNCHANGED <<stream_running, shutdown_event, process, stream_lock,
                           stopped_by>>
       ELSE /\ stream_running' = FALSE
            /\ shutdown_event' = TRUE
            /\ \E obeys \in BOOLEAN : process' = AfterTerminate(process, obeys)
            /\ stream_lock' = t
            /\ stopped_by' = t
            /\ SetPc(t, "joining")
    /\ UNCHANGED <<configVars, callbackVars, streamVars, scoreVars, supervisorVars,
                   sound_windows, active_sounds, decay_counters, event_counts,
                   reported, decoded, at_eof, read_pos, raw_audio, dispatched,
                   read_thread, ffmpeg_started_event, stderr, read_state,
                   handled>>

\* stop(): the joins of the other threads of the worker, and the end of
\* `with self.lock`
StopJoin(t) ==
    /\ PcOf(t) = "joining"
    /\ JoinReturns(StillAlive(t))
    /\ stream_lock' = "free"
    /\ SetPc(t, AfterStop(t))
    /\ UNCHANGED <<configVars, callbackVars, engineVars, streamVars, scoreVars, frameVars,
                   supervisorVars, process, ffmpeg_started_event, stderr,
                   read_state, handled, stopped_by>>

stop == \E t \in {"main", "error_thread", "timeout_thread"} : StopEnter(t) \/ StopJoin(t)

\* stop_all_streams after stream.stop(): the lock is released, the join of
\* the monitor thread comes back and the call returns
StopAllReturn ==
    /\ stopper = "join"
    /\ lock' = "free"
    /\ stopper' = "returned"
    /\ stop_all_returned' = stop_all_returned + 1
    /\ UNCHANGED <<configVars, callbackVars, engineVars, streamVars, scoreVars, frameVars,
                   stream_lock, process, ffmpeg_started_event, stderr,
                   read_state, error_thread, timeout_thread, handled, stopped_by,
                   supervisor_running, streams, workers,
                   supervisor_thread, main_thread, signals, stop_calls>>

WorkerNext ==
    \/ DecoderWriteLine \/ DecoderExits
    \/ ReadFrame \/ UpdateWindow \/ ReadStreamExit \/ ReadStreamRaises
    \/ ReadStderrBegin \/ ReadStderr \/ ReadStderrExit
    \/ TimeoutMonitor
    \/ StopAllStreams \/ StopAllReturn
    \/ stop

SpecWorker == WorkerInit /\ [][WorkerNext]_vars

\* The steps of each thread
ReadThread == ReadFrame \/ UpdateWindow \/ ReadStreamExit

ErrorThread ==
    \/ ReadStderrBegin \/ ReadStderr \/ ReadStderrExit
    \/ StopEnter("error_thread") \/ StopJoin("error_thread")

TimeoutThread ==
    TimeoutMonitor \/ StopEnter("timeout_thread") \/ StopJoin("timeout_thread")

MainThread == StopEnter("main") \/ StopJoin("main") \/ StopAllReturn

\* Each thread that can run is eventually scheduled; what the decoder does
\* and whether stop_all_streams is called is up to the environment
SpecWorkerLive ==
    WorkerInit /\ [][WorkerNext]_vars
    /\ WF_vars(ReadThread) /\ WF_vars(ErrorThread)
    /\ WF_vars(TimeoutThread) /\ WF_vars(MainThread)

-----------------------------------------------------------------------------
(* analyze_callback as the read threads of two cameras run it, each call    *)
(* step by step, and the summary thread.  A waveform is known by the camera *)
(* it came from and the tracked groups that sound in it; the scores an      *)
(* inference gives are known by the waveform they were computed from.       *)

\* The waveforms the read thread of a camera can assemble
Waveforms(camera_name) ==
    {[camera_name |-> camera_name, sounds |-> d] :
        d \in SUBSET Range(sounds_to_track)}

\* Mutant of Usable: analyze_callback does not look at what inference returned
Usable_always(inferred) == TRUE

\* analyze_callback: if scores is not None
Usable(inferred) == inferred # "None"

\* Mutant of Acquirable: state_lock does not exclude anyone
Acquirable_always(holder) == TRUE

\* `with state_lock` is entered when no thread holds the lock
Acquirable(holder) == holder = "free"

\* The read thread of a camera is not inside analyze_callback: it has handed
\* over n waveforms, and failed says whether its last inference failed
IdleCall(n, failed) ==
    [pc |-> "idle", waveform |-> NoWaveform, scores |-> NoWaveform,
     frames |-> n, failed |-> failed]

\* Both workers run, the summary thread sleeps, nothing has been dispatched
CallbackInit ==
    /\ camera_settings = {"cam1", "cam2"}
    /\ sounds_to_track = <<"dog">>
    /\ events_settings = WorkerEventsSettings
    /\ EngineInit
    /\ StreamIdle
    /\ ScoreIdle
    /\ FrameIdle
    /\ SupervisorIdle
    /\ WorkerIdle
    /\ interpreter = [input |-> NoWaveform, output |-> NoWaveform]
    /\ callback = [c \in camera_settings |-> IdleCall(0, FALSE)]
    /\ state_lock = "free"
    /\ summary_thread = "sleep"
    /\ summaries = <<>>

\* read_stream hands a waveform to analyze_callback, which runs up to the
\* call of interpreter.set_tensor in analyze_audio_waveform
AnalyzeCallback(c) ==
    /\ callback[c].pc = "idle"
    /\ callback[c].frames < MaxCallbacks
    /\ \E waveform \in Waveforms(c) :
          callback' = [callback EXCEPT ![c] =
              IF shutdown_event
              THEN IdleCall(@.frames + 1, @.failed)
              ELSE [@ EXCEPT !.pc = "set_tensor", !.waveform = waveform,
                             !.frames = @ + 1]]
    /\ UNCHANGED <<configVars, engineVars, streamVars, scoreVars, frameVars,
                   supervisorVars, workerVars, interpreter, state_lock,
                   summary_thread, summaries>>

\* interpreter.set_tensor(input_details[0]['index'], waveform)
SetTensor(c) ==
    /\ callback[c].pc = "set_tensor"
    /\ interpreter' = [interpreter EXCEPT !.input = callback[c].waveform]
    /\ callback' = [callback EXCEPT ![c].pc = "invoke"]
    /\ UNCHANGED <<configVars, engineVars, streamVars, scoreVars, frameVars,
                   supervisorVars, workerVars, state_lock, summary_thread,
                   summaries>>

\* interpreter.invoke(): the output tensor gets the scores of whatever the
\* input tensor holds, or the engine raises, analyze_audio_waveform returns
\* None and analyze_callback, which does nothing with None but log, returns
Invoke(c) ==
    /\ callback[c].pc = "invoke"
    /\ \E inferred \in {"scores", "None"} :
          IF Usable(inferred)
          THEN /\ interpreter' = [interpreter EXCEPT !.output = interpreter.input]
               /\ callback' = [callback EXCEPT ![c].pc = "get_tensor",
                                               ![c].failed = (inferred = "None")]
          ELSE /\ callback' = [callback EXCEPT ![c] = IdleCall(@.frames, TRUE)]
               /\ UNCHANGED interpreter
    /\ UNCHANGED <<configVars, engineVars, streamVars, scoreVars, frameVars,
                   supervisorVars, workerVars, state_lock, summary_thread,
                   summaries>>

\* scores = np.copy(interpreter.get_tensor(output_details[0]['index'])), and
\* analyze_callback up to its call of update_sound_window
GetTensor(c) ==
    /\ callback[c].pc = "get_tensor"
    /\ callback' = [callback EXCEPT ![c] =
          IF shutdown_event
          THEN IdleCall(@.frames, @.failed)
          ELSE [@ EXCEPT !.pc = "update", !.scores = interpreter.output]]
    /\ UNCHANGED <<configVars, engineVars, streamVars, scoreVars, frameVars,
                   supervisorVars, workerVars, interpreter, state_lock,
                   summary_thread, summaries>>

\* update_sound_window: the look at the shutdown event, then `with
\* state_lock` and the loop over sounds_to_track; the thread is in
\* report_event, with the lock held, if the loop found a transition
UpdateSoundWindow(c) ==
    /\ callback[c].pc = "update"
    /\ IF shutdown_event
       THEN /\ callback' = [callback EXCEPT ![c] = IdleCall(@.frames, @.failed)]
            /\ UNCHANGED <<engineVars, state_lock>>
       ELSE /\ Acquirable(state_lock)
            /\ state_lock' = c
            /\ WithStateLock(c, callback[c].scores.sounds)
            /\ callback' = [callback EXCEPT ![c].pc =
                  IF Reports(c, callback[c].scores.sounds) # <<>>
                  THEN "report_event" ELSE "locked"]
            /\ UNCHANGED shutdown_event
    /\ UNCHANGED <<configVars, streamVars, scoreVars, frameVars, supervisorVars,
                   workerVars, interpreter, summary_thread, summaries>>

\* report_event and logger.info have returned, and `with state_lock` ends
ReleaseStateLock(c) ==
    /\ callback[c].pc \in {"report_event", "locked"}
    /\ state_lock' = "free"
    /\ callback' = [callback EXCEPT ![c] = IdleCall(@.frames, @.failed)]
    /\ UNCHANGED <<configVars, engineVars, streamVars, scoreVars, frameVars,
                   supervisorVars, workerVars, interpreter, summary_thread,
                   summaries>>

analyze_callback ==
    \E c \in camera_settings :
        \/ AnalyzeCallback(c) \/ SetTensor(c) \/ Invoke(c) \/ GetTensor(c)
        \/ UpdateSoundWindow(c) \/ ReleaseStateLock(c)

\* The counts log_summary reads, camera by camera
Counts == [c \in camera_settings |-> Get(event_counts, c, <<>>)]

\* log_summary after its sleep: `with state_lock`, the summary lines are
\* built from event_counts and handed to logger.info
LogSummary ==
    /\ summary_thread = "sleep"
    /\ ~shutdown_event
    /\ Len(summaries) < MaxSummaries
    /\ Acquirable(state_lock)
    /\ state_lock' = "summary"
    /\ summaries' = Append(summaries, Counts)
    /\ summary_thread' = "logger.info"
    /\ UNCHANGED <<configVars, engineVars, streamVars, scoreVars, frameVars,
                   supervisorVars, workerVars, interpreter, callback>>

\* log_summary: logger.info has returned, the counts of every camera are
\* cleared and `with state_lock` ends
ClearCounts ==
    /\ summary_thread = "logger.info"
    /\ event_counts' = [c \in DOMAIN event_counts |-> <<>>]
    /\ state_lock' = "free"
    /\ summary_thread' = "sleep"
    /\ UNCHANGED <<configVars, streamVars, scoreVars, frameVars, supervisorVars,
                   workerVars, shutdown_event, sound_windows, active_sounds,
                   decay_counters, reported, interpreter, callback, summaries>>

CallbackNext == analyze_callback \/ LogSummary \/ ClearCounts

SpecCallbacks == CallbackInit /\ [][CallbackNext]_vars

-----------------------------------------------------------------------------
(* Claims about the event state machine *)

IsActiveIn(active, camera_name, sound_class) ==
    Get(Get(active, camera_name, <<>>), sound_class, FALSE)

\* The remaining decay of a group, -1 while the counter does not exist
DecayIn(counters, camera_name, sound_class) ==
    Get(Get(counters, camera_name, <<>>), sound_class, -1)

EventsOf(camera_name, sound_class) ==
    SelectSeq(reported, LAMBDA e : /\ e.camera_name = camera_name
                                   /\ e.sound_class = sound_class)

\* C1: for every (camera, group) the reported events alternate start, stop,
\* start, ... beginning with a start, and the group is active exactly while
\* its last reported event is a start.
C1_StartStopAlternate ==
    \A c \in camera_settings : \A g \in Range(sounds_to_track) :
        LET ev == EventsOf(c, g)
        IN  /\ \A i \in DOMAIN ev :
                  ev[i].event_type = IF i % 2 = 1 THEN "start" ELSE "stop"
            /\ IsActiveIn(active_sounds, c, g) <=> (Len(ev) % 2 = 1)

C1_Witness ==
    \E c \in camera_settings : \E g \in Range(sounds_to_track) :
        Len(EventsOf(c, g)) >= 3

\* C4: with decay >= 1, an active group has a positive decay counter, and a
\* group goes from active to not active on exactly the dispatch in which its
\* decay counter reaches 0.
C4_ActiveHasDecay ==
    /\ [](events_settings.decay >= 1 =>
            \A c \in camera_settings : \A g \in Range(sounds_to_track) :
                IsActiveIn(active_sounds, c, g) => DecayIn(decay_counters, c, g) > 0)
    /\ [][events_settings.decay >= 1 =>
            \A c \in camera_settings : \A g \in Range(sounds_to_track) :
                (IsActiveIn(active_sounds, c, g) /\ ~IsActiveIn(active_sounds', c, g))
                <=> (DecayIn(decay_counters, c, g) > 0
                     /\ DecayIn(decay_counters', c, g) = 0)]_vars

C4_Witness ==
    /\ events_settings.decay >= 2
    /\ \E c \in camera_settings : \E g \in Range(sounds_to_track) :
          /\ Len(EventsOf(c, g)) = 2
          /\ ~IsActiveIn(active_sounds, c, g)
          /\ DecayIn(decay_counters, c, g) = 0

\* The n most recent samples of s
MostRecent(s, n) == IF Len(s) <= n THEN s ELSE SubSeq(s, Len(s) - n + 1, Len(s))

-----------------------------------------------------------------------------
(* Claims about one detection stream *)

HasEvent(i, event_type) ==
    \E k \in DOMAIN trace[i] : trace[i][k].event_type = event_type

\* The detections among windows a..b of the stream
Detections(a, b) == Cardinality({j \in a..b : j \in DOMAIN script /\ script[j]})

IsPrefix(p, s) == Len(p) <= Len(s) /\ \A i \in DOMAIN p : s[i] = p[i]

\* C2: a start is reported only by a dispatch after which the last
\* window_detect windows of the stream hold at least persistence detections;
\* the stream T,T,F,T,T under the default settings reports exactly one start,
\* and not before its third detection.
C2_StartNeedsPersistence ==
    /\ \A i \in DOMAIN trace :
          HasEvent(i, "start") =>
              Detections(i - events_settings.window_detect + 1, i)
                  >= events_settings.persistence
    /\ (IsPrefix(<<TRUE, TRUE, FALSE, TRUE, TRUE>>, script) /\ Len(trace) >= 5) =>
          /\ Cardinality({i \in 1..5 : HasEvent(i, "start")}) = 1
          /\ \A i \in 1..5 : HasEvent(i, "start") => Detections(1, i) >= 3

C2_Witness ==
    /\ IsPrefix(<<TRUE, TRUE, FALSE, TRUE, TRUE>>, script)
    /\ Len(trace) >= 5
    /\ HasEvent(4, "start")

\* C3: a stop is reported only by the decay-th consecutive non-detection: the
\* decay most recent windows were all non-detections and the window before
\* them was a detection.
C3_StopAfterExactlyDecay ==
    \A i \in DOMAIN trace :
        HasEvent(i, "stop") =>
            LET d == events_settings.decay
            IN  /\ i > d
                /\ \A j \in (i - d + 1)..i : ~script[j]
                /\ script[i - d]

\* C5: with the default settings, once a start has been reported, a run of
\* non-detections reports the stop on exactly the 15th non-detection, and a
\* 16th non-detection reports nothing.
C5_StopOnFifteenth ==
    events_settings = DefaultEventsSettings =>
        \A i \in DOMAIN trace :
            (/\ HasEvent(i, "start")
             /\ Len(trace) >= i + DefaultDecay
             /\ \A j \in (i + 1)..(i + DefaultDecay) : ~script[j])
            => /\ HasEvent(i + DefaultDecay, "stop")
               /\ \A j \in (i + 1)..(i + DefaultDecay - 1) : trace[j] = <<>>
               /\ (Len(trace) > i + DefaultDecay /\ ~script[i + DefaultDecay + 1])
                      => trace[i + DefaultDecay + 1] = <<>>

ScenarioE == <<TRUE, TRUE, TRUE, FALSE, TRUE, FALSE, TRUE, FALSE, FALSE, FALSE>>

\* C6: the stream T,T,T,F,T,F,T,F,F,F with decay = 3 (window_detect = 5,
\* persistence = 3) from a fresh state: the start is reported at index 2, the
\* decay counter is 3 after the detections at index 4 and index 6, no stop is
\* reported before index 9, and the stop is reported at index 9.
C6_ScenarioE ==
    (events_settings.decay = 3 /\ IsPrefix(ScenarioE, script)) =>
        /\ \A i \in DOMAIN trace :
              /\ i \in {1, 2} => trace[i] = <<>>
              /\ i = 3 => (Len(trace[i]) = 1 /\ HasEvent(i, "start"))
              /\ i \in 4..9 => trace[i] = <<>>
              /\ i = 10 => (Len(trace[i]) = 1 /\ HasEvent(i, "stop"))
        /\ Len(trace) \in {5, 7} => DecayIn(decay_counters, "cam1", "dog") = 3

C6_Witness ==
    /\ events_settings.decay = 3
    /\ IsPrefix(ScenarioE, script)
    /\ Len(trace) = 10
    /\ HasEvent(10, "stop")

\* The window of the stream's group as the engine holds it
WindowOf(camera_name, sound_class) ==
    Get(Get(sound_windows, camera_name, <<>>), sound_class, <<>>)

\* The number of consecutive non-detections that end with window i
NonDetectionRun(i) ==
    CHOOSE r \in 0..i :
        /\ \A j \in (i - r + 1)..i : ~script[j]
        /\ r = i \/ script[i - r]

\* C31: sustain. After every dispatch in which the group was active before
\* the dispatch and is detected in the dispatched window, its decay counter
\* equals the configured decay.
C31_SustainResetsDecay ==
    [][(/\ Len(trace') = Len(trace) + 1
        /\ IsActiveIn(active_sounds, "cam1", "dog")
        /\ script[Len(trace')])
       => DecayIn(decay_counters', "cam1", "dog") = events_settings.decay]_vars

\* C37: bounded stop response. A stop is reported by no earlier than the
\* decay-th and no later than the (decay + window_detect - persistence)-th
\* consecutive non-detection; an active group has seen fewer consecutive
\* non-detections than that; one run of non-detections reports one stop.
C37_BoundedStopResponse ==
    LET s == events_settings
        latest == s.decay + s.window_detect - s.persistence
    IN  (1 <= s.persistence /\ s.persistence <= s.window_detect /\ s.decay >= 1) =>
        /\ \A i \in DOMAIN trace :
              HasEvent(i, "stop") =>
                  /\ NonDetectionRun(i) >= s.decay
                  /\ NonDetectionRun(i) <= latest
        /\ IsActiveIn(active_sounds, "cam1", "dog") =>
              NonDetectionRun(Len(trace)) < latest
        /\ \A i \in DOMAIN trace : \A j \in DOMAIN trace :
              (i < j /\ HasEvent(i, "stop") /\ HasEvent(j, "stop")) =>
                  \E k \in (i + 1)..j : script[k]

\* C39: after every completed dispatch a group that is not active has fewer
\* than persistence detections in its window; a start is reported only by a
\* dispatch in which the group was detected; after a stop no start is
\* reported before a new detection.
C39_InactiveBelowPersistence ==
    events_settings.persistence >= 1 =>
        /\ ~IsActiveIn(active_sounds, "cam1", "dog") =>
              CountTrue(WindowOf("cam1", "dog")) < events_settings.persistence
        /\ \A i \in DOMAIN trace : HasEvent(i, "start") => script[i]
        /\ \A i \in DOMAIN trace : \A j \in DOMAIN trace :
              (i < j /\ HasEvent(i, "stop") /\ HasEvent(j, "start")) =>
                  \E k \in (i + 1)..j : script[k]

\* A stop, then detections that do not yet reach persistence, then the start
C39_Witness ==
    \E i \in DOMAIN trace : \E j \in DOMAIN trace :
        /\ HasEvent(i, "stop")
        /\ i + 1 < j
        /\ script[i + 1]
        /\ HasEvent(j, "start")

-----------------------------------------------------------------------------
(* calculate_composite_scores on the noise-filtered scores of one window *)

\* The class scores a window can hold at or above the noise threshold
\* (0.4, 0.55, 0.7, 0.72, 0.99)
SurvivingScores == {40, 55, 70, 72, 99}

ScoreLists(n) == UNION {[1..k -> SurvivingScores] : k \in 1..n}

\* One group with up to MaxGroupSize surviving classes, alone, or after a
\* group with one strong class and then with up to two classes or with
\* MaxGroupSize weak ones
GroupScoreDicts ==
    {<<[group |-> "dog", scores |-> l]>> : l \in ScoreLists(MaxGroupSize)}
    \cup {<<[group |-> "glass", scores |-> <<strong>>],
            [group |-> "dog", scores |-> l]>> :
            strong \in {72, 99},
            l \in ScoreLists(2) \cup [1..MaxGroupSize -> {55, 70}]}

CompositeInit ==
    /\ camera_settings = {"cam1"}
    /\ sounds_to_track = <<"dog", "glass">>
    /\ events_settings = DefaultEventsSettings
    /\ EngineInit
    /\ StreamIdle
    /\ general_settings = DefaultGeneralSettings
    /\ scores = <<>>
    /\ group_scores \in GroupScoreDicts
    /\ composite_scores = <<>>
    /\ results = <<>>
    /\ returned = FALSE
    /\ FrameIdle
    /\ SupervisorIdle
    /\ WorkerIdle
    /\ CallbackIdle

CalculateComposite ==
    /\ ~returned
    /\ composite_scores' = calculate_composite_scores(group_scores)
    /\ returned' = TRUE
    /\ UNCHANGED <<configVars, callbackVars, supervisorVars, workerVars,
                   frameVars, engineVars, streamVars, general_settings, scores,
                   group_scores, results>>

CompositeNext == CalculateComposite

SpecComposite == CompositeInit /\ [][CompositeNext]_vars

-----------------------------------------------------------------------------
(* rank_sounds on one window *)

\* 0.05 is below the noise threshold
ClassScores == {5, 40, 55, 72}

RankInit ==
    /\ camera_settings = {"cam1"}
    /\ sounds_to_track = <<"dog", "glass">>
    /\ events_settings = DefaultEventsSettings
    /\ EngineInit
    /\ StreamIdle
    /\ \E k \in 1..MaxTopK :
          general_settings = [DefaultGeneralSettings EXCEPT !.top_k = k]
    /\ scores \in [DOMAIN class_names -> ClassScores]
    /\ group_scores = <<>>
    /\ composite_scores = <<>>
    /\ results = <<>>
    /\ returned = FALSE
    /\ FrameIdle
    /\ SupervisorIdle
    /\ WorkerIdle
    /\ CallbackIdle

RankSounds ==
    /\ ~returned
    /\ results' = rank_sounds(scores, general_settings, sounds_to_track, shutdown_event)
    /\ returned' = TRUE
    /\ UNCHANGED <<configVars, callbackVars, supervisorVars, workerVars,
                   frameVars, engineVars, streamVars, general_settings, scores,
                   group_scores, composite_scores>>

\* The shutdown signal is set before rank_sounds tests it
ShutdownBeforeCall == SetShutdown /\ ~returned

RankNext == RankSounds \/ ShutdownBeforeCall

SpecRank == RankInit /\ [][RankNext]_vars

-----------------------------------------------------------------------------
(* Claims about the composite score *)

\* The largest element of a non-empty list
Largest(l) == CHOOSE x \in Range(l) : \A y \in Range(l) : y <= x

\* C7 as stated: the composite score of every group is at most 0.95.
C7_CompositeAtMostCap ==
    \A k \in DOMAIN composite_scores : composite_scores[k].score <= 95

\* C7 as amended: the composite score of a group is at most 0.95 unless the
\* group's largest class score itself is above 0.95, and then it is that class
\* score.
C7_CompositeAtMostCapOrMax ==
    returned =>
        \A k \in DOMAIN group_scores :
            LET m == Largest(group_scores[k].scores)
            IN  composite_scores[k].score <= (IF m > 95 THEN m ELSE 95)

C7_Witness ==
    /\ returned
    /\ \E k \in DOMAIN group_scores :
          LET l == group_scores[k].scores
          IN  /\ Largest(l) <= 70
              /\ Largest(l) + 5 * Len(l) > 95
              /\ composite_scores[k].score = 95

\* C8: the composite score of a non-empty list of surviving class scores is
\* its maximum when the maximum is above 0.7, and otherwise the smaller of
\* maximum + 0.05 * (number of scores) and 0.95; [0.4, 0.55] gives 0.65 and
\* [0.4, 0.72] gives 0.72.
C8_CompositeRule ==
    returned =>
        /\ Len(composite_scores) = Len(group_scores)
        /\ \A k \in DOMAIN group_scores :
              LET l == group_scores[k].scores
                  m == Largest(l)
                  boosted == m + 5 * Len(l)
              IN  /\ composite_scores[k].group = group_scores[k].group
                  /\ m > 70 => composite_scores[k].score = m
                  /\ m <= 70 => composite_scores[k].score =
                                    (IF boosted < 95 THEN boosted ELSE 95)
                  /\ l = <<40, 55>> => composite_scores[k].score = 65
                  /\ l = <<40, 72>> => composite_scores[k].score = 72

C8_Witness ==
    /\ returned
    /\ \E k \in DOMAIN group_scores :
          /\ group_scores[k].scores = <<40, 55>>
          /\ composite_scores[k].score = 65

\* C33 as stated: for any two groups of one window, if the largest class
\* score of group A is at most 0.7 and the largest class score of group B is
\* above 0.7, the composite score of A is at most the composite score of B.
C33_BoostNeverExceedsStrong ==
    returned =>
        \A a \in DOMAIN group_scores : \A b \in DOMAIN group_scores :
            (/\ Largest(group_scores[a].scores) <= 70
             /\ Largest(group_scores[b].scores) > 70)
            => composite_scores[a].score <= composite_scores[b].score

\* C33 as amended: for any two groups of one window, if the largest class
\* score of group A is at most 0.7 and the largest class score of group B is
\* at least 0.95, the composite score of A is at most the composite score of B.
C33_BoostNeverExceedsCap ==
    returned =>
        \A a \in DOMAIN group_scores : \A b \in DOMAIN group_scores :
            (/\ Largest(group_scores[a].scores) <= 70
             /\ Largest(group_scores[b].scores) >= 95)
            => composite_scores[a].score <= composite_scores[b].score

\* A boost that the cap cuts, next to a strong detection above the cap
C33_Witness ==
    /\ returned
    /\ \E a \in DOMAIN group_scores : \E b \in DOMAIN group_scores :
          LET l == group_scores[a].scores
          IN  /\ Largest(l) <= 70
              /\ Largest(l) + 5 * Len(l) > 95
              /\ composite_scores[a].score = 95
              /\ Largest(group_scores[b].scores) = 99
              /\ composite_scores[b].score = 99

-----------------------------------------------------------------------------
(* Claims about rank_sounds *)

AllGroups == {GroupOf(class_names[i]) : i \in DOMAIN class_names}

\* The classes of a group whose score is at or above the noise threshold
Surviving(g) ==
    {i \in DOMAIN class_names :
        GroupOf(class_names[i]) = g /\ scores[i] >= general_settings.noise_threshold}

Present == {g \in AllGroups : Surviving(g) # {}}

Composite(g) ==
    LET m == CHOOSE x \in {scores[i] : i \in Surviving(g)} :
                 \A i \in Surviving(g) : scores[i] <= x
        boosted == m + 5 * Cardinality(Surviving(g))
    IN  IF m > 70 THEN m ELSE IF boosted < 95 THEN boosted ELSE 95

FirstClass(g) == CHOOSE i \in Surviving(g) : \A j \in Surviving(g) : i <= j

\* h is ranked before g: a higher composite, or the same composite and an
\* earlier first surviving class
RankedBefore(h, g) ==
    \/ Composite(h) > Composite(g)
    \/ Composite(h) = Composite(g) /\ FirstClass(h) < FirstClass(g)

InTopK(g) ==
    Cardinality({h \in Present : RankedBefore(h, g)}) < general_settings.top_k

Admitted(g) ==
    /\ g \in Range(sounds_to_track)
    /\ Composite(g) >= (IF g = "glass" THEN 60 ELSE general_settings.default_min_score)

\* C9: called while the shutdown signal is not set, rank_sounds returns
\* exactly the groups that have a class at or above noise_threshold, are among
\* the top_k groups by composite score over all groups (ties go to the group
\* whose first surviving class comes first), are tracked and reach their
\* min_score; each with its composite score, by descending score, at most
\* top_k of them. Called with the signal set it returns nothing.
C9_RankSoundsResult ==
    returned =>
        IF shutdown_event THEN results = <<>>
        ELSE /\ {results[k].class : k \in DOMAIN results}
                   = {g \in Present : InTopK(g) /\ Admitted(g)}
             /\ \A j, k \in DOMAIN results :
                   j < k => /\ results[j].class # results[k].class
                            /\ results[j].score >= results[k].score
             /\ \A k \in DOMAIN results :
                   results[k].score = Composite(results[k].class)
             /\ Len(results) <= general_settings.top_k

\* An untracked group takes the one top_k place of an admissible tracked group
C9_Witness ==
    /\ returned
    /\ ~shutdown_event
    /\ results = <<>>
    /\ \E g \in Present : Admitted(g) /\ ~InTopK(g)

-----------------------------------------------------------------------------
(* Claims about the frame assembler *)

RECURSIVE Concatenation(_)
Concatenation(frames) ==
    IF frames = <<>> THEN <<>>
    ELSE Concatenation(SubSeq(frames, 1, Len(frames) - 1)) \o frames[Len(frames)]

\* C10: however the decoder's bytes arrive, every dispatched frame is exactly
\* buffer_size bytes, the buffer holds fewer than buffer_size bytes between
\* reads, the dispatched frames followed by the buffer are the bytes read so
\* far in order (so the frames are a prefix of the decoder's stream), and a
\* partial frame is never dispatched: what was read beyond the last whole
\* frame is dropped when the read thread ends.
C10_FramesArePrefix ==
    /\ \A i \in DOMAIN dispatched : Len(dispatched[i]) = buffer_size
    /\ Len(raw_audio) < buffer_size
    /\ read_pos <= Len(decoded)
    /\ Concatenation(dispatched)
           = SubSeq(decoded, 1, Len(dispatched) * buffer_size)
    /\ read_thread = "alive" =>
           Concatenation(dispatched) \o raw_audio = SubSeq(decoded, 1, read_pos)
    /\ read_thread = "exited" =>
           /\ raw_audio = <<>>
           /\ read_pos - Len(dispatched) * buffer_size \in 0..(buffer_size - 1)

\* Two frames were dispatched and a partial third was dropped at the end
C10_Witness ==
    /\ Len(dispatched) = 2
    /\ read_thread = "exited"
    /\ read_pos > 2 * buffer_size

-----------------------------------------------------------------------------
(* Claims about the supervisor *)

\* An invocation of stop_all_streams is on the main thread's stack
StopAllInProgress ==
    \E k \in DOMAIN main_thread : main_thread[k].fn = "stop_all_streams"

\* The monitor thread is inside start_stream for the camera
RestartAttempt(camera_name) ==
    /\ supervisor_thread.pc \in {"restart", "register"}
    /\ CameraNames[supervisor_thread.i] = camera_name

\* A worker of the camera has stopped itself on a fatal diagnostic line
StoppedItself(camera_name) ==
    \E w \in DOMAIN workers :
        /\ workers[w].camera_name = camera_name
        /\ workers[w].stopped_by = "error_thread"

\* C12: once an invocation of stop_all_streams has returned, no decoder
\* subprocess of any worker object is alive.
C12_NoDecoderAfterStopAll ==
    stop_all_returned > 0 =>
        \A w \in DOMAIN workers : workers[w].process # "alive"

\* C13: an invocation of stop_all_streams that finds self.running cleared (a
\* second call) returns in its first step and leaves the shutdown event, the
\* running flag, the stream map, every worker and the list of stop() calls
\* as they were.
C13_SecondStopAllChangesNothing ==
    [][(/\ InFrame("stop_all_streams", "lock")
        /\ ~supervisor_running
        /\ signals' = signals
        /\ main_thread' # main_thread)
       => (/\ main_thread' = Pop
           /\ stop_all_returned' = stop_all_returned + 1
           /\ UNCHANGED <<shutdown_event, supervisor_running, lock, streams,
                          workers, stop_calls>>)]_vars

\* Two invocations have returned, the first of which stopped a worker
C13_Witness ==
    /\ stop_all_returned >= 2
    /\ stop_calls # <<>>
    /\ \E w \in DOMAIN workers : workers[w].stopped_by = "stop_all_streams"

\* C14: every invocation of stop_all_streams eventually returns.
C14_StopAllReturns == [](StopAllInProgress => <>(~StopAllInProgress))

\* C15: while the shutdown event is not set, a liveness tick that finds a
\* camera without a running worker starts one, completes and lets the monitor
\* loop go on.
C15_TickRestartsAndCompletes ==
    [](supervisor_thread.pc = "restart" =>
          <>(supervisor_thread.pc = "loop" \/ shutdown_event))

\* C16: after a worker has stopped itself on a fatal diagnostic line, and
\* unless a shutdown is requested, the monitor makes a restart attempt for
\* its camera.
C16_RestartAfterFatalLine ==
    \A camera_name \in {"cam1", "cam2"} :
        [](StoppedItself(camera_name) =>
              <>(RestartAttempt(camera_name) \/ signals > 0))

\* C17: the monitor thread has ended only if a shutdown was requested.
C17_MonitorNeverAborted ==
    supervisor_thread.pc \in {"done", "dead"} => signals > 0

-----------------------------------------------------------------------------
(* Claims about a worker *)

\* C11: once stop_all_streams has returned, no start or stop event is
\* reported any more.
C11_NoEventAfterStopAll ==
    [][stop_all_returned > 0 => reported' = reported]_vars

\* C18: once the decoder subprocess has exited, the read thread eventually
\* ends and the worker eventually reports not running.
C18_DecoderExitStopsWorker ==
    [](process = "exited" => <>(read_thread = "exited" /\ ~stream_running))

\* C19: once _handle_stderr_line has returned from a line holding one of the
\* five fatal substrings, the worker is not running and its decoder
\* subprocess is terminated, whether or not stop_all_streams was called.
C19_FatalLineStopsWorker ==
    ((\E k \in DOMAIN handled : \E p \in FatalPatterns : p \in handled[k])
     /\ error_thread # "stop")
    => (~stream_running /\ process \in {"terminated", "killed"})

\* The diagnostic thread has stopped the worker on a fatal line, with no
\* stop_all_streams call
C19_Witness ==
    /\ \E k \in DOMAIN handled : \E p \in FatalPatterns : p \in handled[k]
    /\ error_thread \notin {"stop", "joining"}
    /\ stopped_by = "error_thread"
    /\ stopper = "none"
    /\ ~stream_running

\* C20: a worker whose ready marker is never observed is eventually stopped,
\* and the watchdog goes on to stop the worker only when its wait ends with
\* the marker not observed.
C20_WatchdogStopsUnstartedWorker ==
    /\ <>(ffmpeg_started_event \/ ~stream_running)
    /\ [][(timeout_thread = "waiting" /\ timeout_thread' # "waiting")
          => (timeout_thread' = IF ffmpeg_started_event THEN "exited" ELSE "stop")]_vars
    /\ [](stopped_by = "timeout_thread" => ~stream_running)

\* The watchdog has stopped a worker whose marker was never observed
C20_Witness ==
    /\ stopped_by = "timeout_thread"
    /\ ~ffmpeg_started_event
    /\ timeout_thread = "exited"
    /\ ~stream_running

\* C40: a worker whose running flag is set has a live read thread, leaving
\* aside a shutdown in progress: when the read thread ends for another
\* reason than stop() or the shutdown event, the running flag is cleared.
C40_RunningHasReadThread ==
    (stream_running /\ ~shutdown_event) => read_thread = "alive"

-----------------------------------------------------------------------------
(* Claims about stop() of a worker *)

\* C21: stop() is idempotent: once one call has stopped the worker, which
\* leaves the decoder dead even if it ignored the terminate request, no later
\* or concurrent call terminates it again or changes the worker.
C21_StopIdempotent ==
    [][/\ stopped_by # "none"
          => UNCHANGED <<stopped_by, process, stream_running>>
       /\ stopped_by' # "none"
          => (~stream_running' /\ process' \in {"terminated", "killed"})]_vars

\* The watchdog or the diagnostic thread stopped a worker whose decoder
\* ignored the terminate request, and the later stop() of stop_all_streams
\* has returned
C21_Witness ==
    /\ stopped_by \in {"error_thread", "timeout_thread"}
    /\ process = "killed"
    /\ stopper \in {"join", "returned"}

\* C22: every call of stop() returns, whichever thread makes it: a thread in
\* stop() is eventually out of it.
C22_StopReturns ==
    \A t \in {"main", "error_thread", "timeout_thread"} :
        [](PcOf(t) \in {"stop", "joining"}
           => <>(PcOf(t) \notin {"stop", "joining"}))

\* stop_all_streams has called stop() and was back from it while the
\* diagnostic thread, which stop() joins, had called stop() itself
C22_Witness ==
    /\ stopped_by = "main"
    /\ stopper \in {"join", "returned"}
    /\ error_thread \in {"stop", "joining"}

\* The worker entered in self.streams for the camera has stopped, or failed
\* to start
StoppedInMap(camera_name) ==
    /\ camera_name \in DOMAIN streams
    /\ ~workers[streams[camera_name]].running

\* C23: whenever the worker of a camera goes from running to stopped, or
\* fails to start, stream_stopped is invoked for that camera: its entry is
\* deleted from self.streams (left aside the runs in which a signal asks for
\* a shutdown).
C23_StreamStoppedInvoked ==
    \A camera_name \in {"cam1", "cam2"} :
        [](StoppedInMap(camera_name)
           => <>(camera_name \notin DOMAIN streams \/ signals > 0))

-----------------------------------------------------------------------------
(* Claims about the event sink *)

\* What update_sound_window leaves in the camera's dictionaries when its
\* report_event calls meet the given publisher
StateAfter(camera_name, detected_sounds, publisher) ==
    LET st == UpdateClasses([CameraState(camera_name) EXCEPT !.publisher = publisher],
                            camera_name, Len(sounds_to_track), detected_sounds,
                            events_settings)
    IN  <<st.window, st.active, st.decay_cam, st.counts>>

\* C28: whatever way the publish fails (no client, client not connected,
\* return code other than success, exception), the dispatch leaves the
\* windows, active flags, decay counters and counts of every tracked group
\* as it leaves them when the publish succeeds.
C28_PublishFailureNotPropagated ==
    \A camera_name \in camera_settings :
    \A detected_sounds \in SUBSET Range(sounds_to_track) :
    \A publisher \in Publishers \ {"success"} :
        StateAfter(camera_name, detected_sounds, publisher)
            = StateAfter(camera_name, detected_sounds, "success")

\* A start was reported with nothing published, and is committed
C28_Witness ==
    \E i \in DOMAIN reported :
        /\ reported[i].event_type = "start"
        /\ reported[i].publishes = <<>>
        /\ IsActiveIn(active_sounds, reported[i].camera_name, reported[i].sound_class)

-----------------------------------------------------------------------------
(* Claims about the sound log *)

\* The dispatch gave every tracked group of the camera its sample
EveryGroupAppended(camera_name) ==
    \E detected \in SUBSET Range(sounds_to_track) :
    \A g \in Range(sounds_to_track) :
        /\ g \in DOMAIN Get(sound_windows', camera_name, <<>>)
        /\ sound_windows'[camera_name][g] =
              MostRecent(Append(Get(Get(sound_windows, camera_name, <<>>), g, <<>>),
                                g \in detected),
                         events_settings.window_detect)

\* C36: after a write of the sound log has failed no further write is
\* attempted, no report_event call ends with an exception, and every dispatch,
\* also one in which a write fails, gives every tracked group its sample.
C36_CsvFailureContained ==
    /\ [](\A i \in DOMAIN reported : \A j \in DOMAIN reported :
             (i < j /\ reported[i].csv = "failed") => reported[j].csv = "skipped")
    /\ [](\A i \in DOMAIN reported : ~reported[i].raised)
    /\ [][(\/ sound_windows' # sound_windows
           \/ reported' # reported)
          => \E c \in camera_settings : EveryGroupAppended(c)]_vars

-----------------------------------------------------------------------------
(* Claims about the event state across a restart of a worker *)

\* A worker of the camera has stopped itself, on a fatal diagnostic line or
\* on the expiry of its watchdog
WorkerStoppedItself(camera_name) ==
    \E v \in DOMAIN workers :
        /\ workers[v].camera_name = camera_name
        /\ workers[v].stopped_by \in {"error_thread", "timeout_thread"}

\* A replacement of a stopped worker of the camera runs and its windows are
\* processed: read_stream, analyze_callback and update_sound_window all
\* return at once when the shutdown event is set
ReplacementProcesses(camera_name) ==
    /\ ~shutdown_event
    /\ \E v, w \in DOMAIN workers :
          /\ v < w
          /\ workers[v].camera_name = camera_name
          /\ workers[v].stopped_by # "none"
          /\ workers[w].camera_name = camera_name
          /\ workers[w].running

-----------------------------------------------------------------------------
(* Claims about the monitor thread next to a worker that stops itself *)

\* C34: once the shutdown event is set the monitor thread starts no worker:
\* it creates no stream and launches no decoder, however the request for the
\* shutdown interleaves with a tick in progress.
C34_NoStartAfterShutdown ==
    [][(/\ supervisor_thread.pc = "restart"
        /\ supervisor_thread'.pc = "register"
        /\ Len(workers') > Len(workers))
       => ~shutdown_event]_vars

\* The decoders of the camera's workers that are alive
LiveDecoders(camera_name) ==
    {w \in DOMAIN workers : /\ workers[w].camera_name = camera_name
                            /\ workers[w].process = "alive"}

\* C35: when a worker has stopped itself, on the expiry of its watchdog or on
\* a fatal diagnostic line, the shutdown event stays unset (no signal having
\* asked for a shutdown) and the running workers of the other cameras keep
\* dispatching, which they do while the shutdown event is unset.
C35_FailureStopsOnlyThatWorker ==
    \A camera_name \in camera_settings :
        (WorkerStoppedItself(camera_name) /\ signals = 0) => ~shutdown_event

\* C38: at every moment at most one decoder subprocess is alive per camera.
C38_OneDecoderPerCamera ==
    \A camera_name \in camera_settings :
        Cardinality(LiveDecoders(camera_name)) <= 1

-----------------------------------------------------------------------------
(* Claims about analyze_callback and the summary *)

\* C24: the scores a camera's read thread hands to update_sound_window are
\* the inference result of that camera's own waveform.
C24_OwnScores ==
    \A c \in DOMAIN callback :
        callback[c].pc = "update" => callback[c].scores = callback[c].waveform

\* C25: no thread is in report_event (CSV write and flush, publish, log
\* record) or in logger.info while it holds state_lock.
C25_NoIOUnderStateLock ==
    /\ \A c \in DOMAIN callback :
          state_lock = c => callback[c].pc # "report_event"
    /\ state_lock = "summary" => summary_thread # "logger.info"

\* How many start events of the group were reported for the camera
Starts(camera_name, sound_class) ==
    Cardinality({i \in DOMAIN reported :
                    /\ reported[i].camera_name = camera_name
                    /\ reported[i].sound_class = sound_class
                    /\ reported[i].event_type = "start"})

\* The sum over the first n summaries of the count of the group
RECURSIVE Summarised(_, _, _)
Summarised(n, camera_name, sound_class) ==
    IF n = 0 THEN 0
    ELSE Summarised(n - 1, camera_name, sound_class)
         + Get(summaries[n][camera_name], sound_class, 0)

\* Every start is in exactly one place: in one summary, or in the counts
\* that the next summary will be written from
EachStartCountedOnce ==
    \A camera_name \in camera_settings : \A sound_class \in Range(sounds_to_track) :
        Starts(camera_name, sound_class) =
            IF summary_thread = "logger.info"
            THEN Summarised(Len(summaries), camera_name, sound_class)
            ELSE Summarised(Len(summaries), camera_name, sound_class)
                 + Get(Counts[camera_name], sound_class, 0)

\* C26: under every interleaving with update_sound_window each start event
\* is counted in exactly one summary, the first written after it, and when a
\* summary is done every count is empty.
C26_SummaryAtomic ==
    [][/\ EachStartCountedOnce'
       /\ (summary_thread = "logger.info" /\ summary_thread' = "sleep")
          => \A c \in DOMAIN event_counts' : event_counts'[c] = <<>>]_vars

\* Two summaries have been written, each with a start the other does not
\* have, and the counts are empty after the second
C26_Witness ==
    /\ Len(summaries) = 2
    /\ summary_thread = "sleep"
    /\ \E c \in camera_settings : Get(summaries[1][c], "dog", 0) > 0
    /\ \E c \in camera_settings : Get(summaries[2][c], "dog", 0) > 0
    /\ \A c \in camera_settings : Counts[c] = <<>>

\* C30: when inference fails for a window, analyze_callback returns without
\* an event and without a change to the event state, and the read thread is
\* back in its loop, ready for the next frame.
C30_FailedInferenceDropsWindow ==
    [][\A c \in DOMAIN callback :
          (callback[c].pc = "invoke" /\ callback'[c] # callback[c]
                                     /\ callback'[c].failed)
          => /\ callback'[c].pc = "idle"
             /\ callback'[c].frames = callback[c].frames
             /\ UNCHANGED <<sound_windows, active_sounds, decay_counters,
                            event_counts, reported>>]_vars

\* A read thread whose first inference failed has handed over its next
\* waveform, with the event state still as it was at the start
C30_Witness ==
    \E c \in DOMAIN callback :
        /\ callback[c].failed
        /\ callback[c].frames = 2
        /\ callback[c].pc = "set_tensor"
        /\ c \notin DOMAIN sound_windows

====
